---- MODULE Spec2Model ----
\* State-machine models of the concurrent components of the examples
\* repository: the multi-node client pool (10-multi-node-pool/main.go), the
\* bounded event store of the mini explorer service, the reconnect driver
\* (04-reconnect-strategy) and the mini explorer service itself.
EXTENDS Integers, Sequences, FiniteSets, TLC

\* ---------------------------------------------------------------- bounds

\* longest endpoint list handed to NewEthClientPool
MaxUrls == 3
\* largest limit handed to NewEventStore
MaxLimit == 3
\* number of Add calls followed on one store
MaxAdds == 5
\* number of connection attempts followed in one run of the reconnect driver
MaxAttempts == 7
\* largest maxRetries handed to fetchBlockWithRetry
MaxRetries == 4
\* longest block range handed to fetchBlockRange
MaxBlocks == 3

\* ------------------------------------------------------------ pool state

VARIABLES
    pc,          \* "new": before NewEthClientPool; "ready": pool returned; "failed": error returned
    urls,        \* argument of NewEthClientPool (raw strings), <<>> once consumed
    dialOk,      \* outcome of ethclient.DialContext for each position of urls
    nodes,       \* EthClientPool.nodes
    primaryIdx,  \* EthClientPool.primaryIdx
    readIdx,     \* EthClientPool.readIdx
    newErr,      \* error returned by NewEthClientPool ("" for nil)
    callers,     \* per caller: position inside GetLatestBlockNumber / GetBalance
    last,        \* the operation that made the latest step, with its result
    recent,      \* nodes returned by pickReadNode since liveness last changed (newest last)
    primaryRet   \* the node the latest pickPrimaryNode call returned (NilNode: nil or no call yet)

\* ------------------------------------- pool state, lock and program level

VARIABLES
    poolMu,      \* EthClientPool.mu: the goroutine that holds it ("" when free)
    thr,         \* per goroutine: its position inside the pool operation it runs
    order,       \* the pickReadNode calls that took effect since liveness last changed, oldest first
    ret,         \* what the step just taken returned from pickReadNode, and the nodes returned to calls it overlapped
    mPc,         \* position of main: "init", "read", "balance", "write", "exited", "fatal"
    reads,       \* the iterations of main's read loop done so far
    open         \* the connections dialed and not closed

\* ----------------------------------------------------------- store state

VARIABLES
    limit,       \* EventStore.limit
    events,      \* EventStore.events
    added        \* every event handed to Add so far, in call order

\* ------------------------------------- store state, lock and memory level

VARIABLES
    mu,          \* EventStore.mu: writer held, number of readers
    addPc,       \* position of the subscription goroutine inside Add
    addEv,       \* the event that Add call was handed
    listPc,      \* position of the query goroutine inside List
    listed,      \* the slice the latest List built, its contents then, and the Adds done then
    heap,        \* backing arrays in use, by address
    hdr          \* the slice header s.events: array, offset into it, len, cap

\* -------------------------------------------------- reconnect driver state

VARIABLES
    dPc,         \* position of runWithReconnect: "top", "checked", "dial", "subscribe", "streaming", "backoff", "terminated"
    attempt,     \* the local variable attempt
    cancelled,   \* ctx has been cancelled (ctx.Done() is closed)
    cancelAt,    \* the position of the driver when cancel() was called ("" before)
    conns,       \* connections dialed and not yet closed
    head,        \* what waits on the headers channel: "none", "nil" or "block"
    remaining,   \* seconds left on the timer of sleepWithBackoff
    cause,       \* what led to the latest sleepWithBackoff: "dial", "subscribe", "suberr" ("" before)
    waits,       \* every sleepWithBackoff call so far: the attempt it followed and its seconds
    dials        \* number of DialContext calls that have returned

\* ---------------------------------------------------- event service state

VARIABLES
    sPc,          \* position of main: "dial", "start", "running", "signalled", "stopped", "cancelled", "exited", "fatal"
    subPc,        \* position of subscribeTransferEvents: "none", "subscribing", "streaming", "returned", "killed"
    subEnd,       \* why subscribeTransferEvents returned: "suberr", "cancelled" ("" before)
    svcCancelled, \* the service's ctx has been cancelled
    serving,      \* the HTTP server: "off", "starting", "listening", "closed"
    fatalBy,      \* the log.Fatalf that ended the process: "dial", "subscribe", "listen" ("" if none)
    svcConn,      \* the node connection of the service: "none", "open", "closed"
    lastQuery,    \* the latest GET /events: where main and the server stood, whether it was answered, the answer
    closes,       \* calls made so far of server.Shutdown and of client.Close
    lastLog       \* the log the subscription loop took last

\* ------------------------------------------------------ log decoder state

VARIABLES
    rawLog,       \* the types.Log handed to a decoder: Topics, Data, BlockNumber, TxHash
    descriptor,   \* the events of the parsedABI handed to parseLogEvent
    out           \* what the decoder that ran produced (by = "": none has run)

\* ----------------------------------------------------- block fetcher state

VARIABLES
    fPc,          \* position of the caller: "direct", "returned" (main); "ticker", "fetch", "check", "summary", "stopped" (fetchBlockRange)
    rPc,          \* position of fetchBlockWithRetry: "idle", "attempt", "sleep"
    num,          \* the loop variable num of fetchBlockRange, counted from start = 1
    rangeEnd,     \* the argument end of fetchBlockRange
    maxRetries,   \* the argument maxRetries of fetchBlockWithRetry
    tryIdx,       \* the loop variable i of fetchBlockWithRetry
    lastErr,      \* the local variable lastErr ("" for nil)
    fCancelled,   \* the ctx handed to the fetcher is done
    tried,        \* the results of client.BlockByNumber in the latest call, in order
    slept,        \* the time.Sleep calls of the latest call, in milliseconds
    fetchRet      \* what the latest call of fetchBlockWithRetry returned

poolVars == <<pc, urls, dialOk, nodes, primaryIdx, readIdx, newErr, callers, last, recent, primaryRet>>
poolRunVars == <<poolMu, thr, order, ret, mPc, reads, open>>
lockVars == <<mu, addPc, addEv, listPc, listed, heap, hdr>>
storeVars == <<limit, events, added, lockVars>>
driverVars == <<dPc, attempt, cancelled, cancelAt, conns, head, remaining, cause, waits, dials>>
serviceVars == <<sPc, subPc, subEnd, svcCancelled, serving, fatalBy, svcConn, lastQuery, closes, lastLog>>
decodeVars == <<rawLog, descriptor, out>>
fetchVars == <<fPc, rPc, num, rangeEnd, maxRetries, tryIdx, lastErr, fCancelled, tried, slept, fetchRet>>
nonPoolVars == <<poolRunVars, storeVars, driverVars, serviceVars, decodeVars, fetchVars>>
nonStoreVars == <<poolVars, poolRunVars, driverVars, serviceVars, decodeVars, fetchVars>>
nonDriverVars == <<poolVars, poolRunVars, storeVars, serviceVars, decodeVars, fetchVars>>
nonServiceVars == <<poolVars, poolRunVars, driverVars, lockVars, decodeVars, fetchVars>>
nonDecodeVars == <<poolVars, poolRunVars, storeVars, driverVars, serviceVars, fetchVars>>
nonFetchVars == <<poolVars, poolRunVars, storeVars, driverVars, serviceVars, decodeVars>>
nonPoolRunVars == <<storeVars, driverVars, serviceVars, decodeVars, fetchVars>>
vars == <<poolVars, poolRunVars, storeVars, driverVars, serviceVars, decodeVars, fetchVars>>

\* ------------------------------------------------------------ pool model

\* raw entries of ETH_RPC_URLS after strings.Split(.., ",")
RawUrls == {"A", " A", "B", ""}

\* strings.TrimSpace on the raw entries
TrimSpace(raw) ==
    CASE raw = " A" -> "A"
      [] OTHER -> raw

\* a nil *ethclient.Client
NilClient == 0

\* a nil *NodeStatus
NilNode == -1

\* an endpoint that no pool of the model holds
UnknownUrl == "X"

\* the goroutines that call the pool's reads
Callers == {"c1", "c2"}

\* main calls the reads from one goroutine
MainCallers == {"c1"}

\* the two pool reads
Reads == {"GetLatestBlockNumber", "GetBalance"}

\* err of the network call of a read: nil, a transport-level failure, or an
\* application-level error returned by a reachable node
CallOutcomes == {"ok", "transport", "application"}

RECURSIVE BoundedSeqs(_, _)
BoundedSeqs(S, n) ==
    IF n = 0 THEN {<<>>}
    ELSE LET shorter == BoundedSeqs(S, n - 1)
         IN shorter \cup {Append(s, x) : s \in {t \in shorter : Len(t) = n - 1}, x \in S}

\* DialedNode with the failure branch leaving Alive at true
DialedNodeKeepsAlive(u, i, ok) ==
    [URL |-> u, Client |-> IF ok THEN i ELSE NilClient, Alive |-> TRUE]

\* the record NewEthClientPool appends as number i of nodes; the connection
\* handle of a successful dial is named after the record that owns it
DialedNode(u, i, ok) ==
    IF ok THEN [URL |-> u, Client |-> i, Alive |-> TRUE]
    ELSE [URL |-> u, Client |-> NilClient, Alive |-> FALSE]

\* the loop of NewEthClientPool over urls[1..k]
RECURSIVE BuildNodes(_, _, _)
BuildNodes(us, ok, k) ==
    IF k = 0 THEN <<>>
    ELSE LET before == BuildNodes(us, ok, k - 1)
             u == TrimSpace(us[k])
         IN IF u = "" THEN before
            ELSE Append(before, DialedNode(u, Len(before) + 1, ok[k]))

\* the error NewEthClientPool returns ("" for nil)
NewPoolError(us, ns) ==
    IF Len(us) = 0 THEN "no rpc urls provided"
    ELSE IF Len(ns) = 0 THEN "no node connected successfully"
    ELSE ""

Min(S) == CHOOSE x \in S : \A y \in S : x <= y

\* Usable without the test of node.Alive
UsableIgnoresAlive(node) == node.Client # NilClient

\* node.Alive && node.Client != nil
Usable(node) == node.Alive /\ node.Client # NilClient

\* p.nodes[idx], idx counted from 0 as in the source
NodeAt(ns, idx) == ns[idx + 1]

\* ReadHits with the scan stopping at the end of nodes: idx = p.readIdx + i, no modulo
ReadHitsToEnd(ns, rIdx) ==
    LET n == Len(ns)
    IN {i \in 0..(n - 1 - rIdx) : Usable(NodeAt(ns, rIdx + i))}

\* the first i in 0..n-1, in scan order, whose node (readIdx + i) % n is usable
ReadHits(ns, rIdx) ==
    LET n == Len(ns)
    IN {i \in 0..(n - 1) : Usable(NodeAt(ns, (rIdx + i) % n))}

\* ReadScan that moves p.readIdx on by one when the loop finds no node
ReadScanAdvancesOnMiss(ns, rIdx) ==
    LET n == Len(ns)
        hits == ReadHits(ns, rIdx)
    IN IF hits = {} THEN [node |-> NilNode, readIdx |-> IF n = 0 THEN rIdx ELSE (rIdx + 1) % n]
       ELSE LET idx == (rIdx + Min(hits)) % n
            IN [node |-> idx, readIdx |-> (idx + 1) % n]

\* ReadScan with p.readIdx = idx in place of (idx + 1) % n
ReadScanNoAdvance(ns, rIdx) ==
    LET n == Len(ns)
        hits == ReadHits(ns, rIdx)
    IN IF hits = {} THEN [node |-> NilNode, readIdx |-> rIdx]
       ELSE LET idx == (rIdx + Min(hits)) % n
            IN [node |-> idx, readIdx |-> idx]

\* ReadScan with p.readIdx = idx + 1, the modulo left out
ReadScanNoWrap(ns, rIdx) ==
    LET n == Len(ns)
        hits == ReadHits(ns, rIdx)
    IN IF hits = {} THEN [node |-> NilNode, readIdx |-> rIdx]
       ELSE LET idx == (rIdx + Min(hits)) % n
            IN [node |-> idx, readIdx |-> idx + 1]

\* pickReadNode: the node returned (NilNode for nil) and the new readIdx
ReadScan(ns, rIdx) ==
    LET n == Len(ns)
        hits == ReadHits(ns, rIdx)
    IN IF hits = {} THEN [node |-> NilNode, readIdx |-> rIdx]
       ELSE LET idx == (rIdx + Min(hits)) % n
            IN [node |-> idx, readIdx |-> (idx + 1) % n]

\* PrimaryFailover without the assignment p.primaryIdx = i
PrimaryFailoverKeepsIndex(ns, pIdx) ==
    LET n == Len(ns)
        hits == {i \in 0..(n - 1) : Usable(NodeAt(ns, i))}
    IN IF hits = {} THEN [node |-> NilNode, primaryIdx |-> pIdx]
       ELSE [node |-> Min(hits), primaryIdx |-> pIdx]

\* the failover loop of pickPrimaryNode: scan from index 0
PrimaryFailover(ns, pIdx) ==
    LET n == Len(ns)
        hits == {i \in 0..(n - 1) : Usable(NodeAt(ns, i))}
    IN IF hits = {} THEN [node |-> NilNode, primaryIdx |-> pIdx]
       ELSE [node |-> Min(hits), primaryIdx |-> Min(hits)]

\* PrimaryScan written like pickReadNode: the primary rotates on every call
PrimaryScanRoundRobin(ns, pIdx) ==
    LET r == ReadScan(ns, pIdx)
    IN [node |-> r.node, primaryIdx |-> r.readIdx]

\* pickPrimaryNode: the node returned (NilNode for nil) and the new primaryIdx
PrimaryScan(ns, pIdx) ==
    LET n == Len(ns)
    IN IF n > 0 /\ pIdx < n /\ Usable(NodeAt(ns, pIdx))
       THEN [node |-> pIdx, primaryIdx |-> pIdx]
       ELSE PrimaryFailover(ns, pIdx)

\* MarkDead that also sets Alive on every other record that has a connection
MarkDeadRevivesOthers(ns, url) ==
    LET same == {i \in 1..Len(ns) : ns[i].URL = url}
    IN [i \in 1..Len(ns) |->
           IF same # {} /\ i = Min(same) THEN [ns[i] EXCEPT !.Alive = FALSE]
           ELSE [ns[i] EXCEPT !.Alive = ns[i].Client # NilClient]]

\* MarkDead with node.Alive = !node.Alive in place of node.Alive = false
MarkDeadToggle(ns, url) ==
    LET same == {i \in 1..Len(ns) : ns[i].URL = url}
    IN IF same = {} THEN ns
       ELSE [ns EXCEPT ![Min(same)].Alive = ~ns[Min(same)].Alive]

\* markNodeDead: nodes after the call; the loop stops at the first record
\* whose URL equals url
MarkDead(ns, url) ==
    LET same == {i \in 1..Len(ns) : ns[i].URL = url}
    IN IF same = {} THEN ns
       ELSE [ns EXCEPT ![Min(same)].Alive = FALSE]

\* the condition under which a read reports the failure of its call to the pool
ReportsToPool(outcome) == outcome # "ok"

IdleCaller == [at |-> "idle", op |-> "", node |-> NilNode]

\* an entry of last: the operation, where it stands ("pick", "call", "return"),
\* its caller, the node it returned or used, its url argument, its error, and
\* pre: for a primary selection the node the previous one returned, for
\* markNodeDead 1 when the record it names was alive before the call, else 0
NoOp == [op |-> "none", step |-> "", who |-> "", node |-> NilNode, url |-> "", err |-> "",
         pre |-> NilNode]

\* whether markNodeDead(url) finds its record alive (1) or not (0)
WasAlive(ns, url) ==
    IF \E i \in 1..Len(ns) : ns[i].URL = url /\ \A j \in 1..(i - 1) : ns[j].URL # url
                              /\ ns[i].Alive
    THEN 1 ELSE 0

Alive(ns) == {i \in 0..(Len(ns) - 1) : NodeAt(ns, i).Alive}

\* the last k elements of s
LastK(s, k) == IF Len(s) <= k THEN s ELSE SubSeq(s, Len(s) - k + 1, Len(s))

\* the zero value of TransferEvent
NilEvent == [seq |-> 0, body |-> ""]

\* a nil slice
NilSlice == [arr |-> 0, off |-> 0, len |-> 0, cap |-> 0]

\* no List call made yet
NotListed == [hdr |-> NilSlice, val |-> <<>>, at |-> 0]

\* the lock and memory level of the store is not followed
IdleLock ==
    /\ mu = [writer |-> FALSE, readers |-> 0]
    /\ addPc = "idle"
    /\ addEv = NilEvent
    /\ listPc = "idle"
    /\ listed = NotListed
    /\ heap = <<>>
    /\ hdr = NilSlice

\* no GET /events has been made
NoQuery == [asked |-> FALSE, during |-> "", serving |-> "", ok |-> FALSE, val |-> <<>>]

\* a log with no topics and no data
NoLog == [Topics |-> <<>>, Data |-> <<>>, BlockNumber |-> 0, TxHash |-> <<>>]

\* no decoder has run
NoOutput == [by |-> ""]

\* no log is being decoded
IdleDecode ==
    /\ rawLog = NoLog
    /\ descriptor = {}
    /\ out = NoOutput

\* logsCh has delivered nothing yet
NoneReceived == [topics |-> 0, dataOk |-> FALSE, body |-> ""]

\* neither server.Shutdown nor client.Close has been called
NoCloses == [server |-> 0, conn |-> 0]

\* a goroutine that is in no pool operation
IdleThread == [at |-> "idle", op |-> "", node |-> NilNode, next |-> 0, seen |-> {}, stable |-> TRUE]

\* the step just taken was no return of pickReadNode
NoReturn == [who |-> "", node |-> NilNode, overlapped |-> {}, stable |-> TRUE]

\* the lock and the program around the pool are not followed
IdlePoolRun ==
    /\ poolMu = ""
    /\ thr = [c \in Callers |-> IdleThread]
    /\ order = <<>>
    /\ ret = NoReturn
    /\ mPc = "init"
    /\ reads = 0
    /\ open = {}

\* fetchBlockWithRetry has not returned
NoFetchReturn == [done |-> FALSE, ok |-> FALSE, wraps |-> "", retries |-> 0]

\* the block fetcher has not been started
IdleFetch ==
    /\ fPc = "direct"
    /\ rPc = "idle"
    /\ num = 0
    /\ rangeEnd = 0
    /\ maxRetries = 0
    /\ tryIdx = 0
    /\ lastErr = ""
    /\ fCancelled = FALSE
    /\ tried = <<>>
    /\ slept = <<>>
    /\ fetchRet = NoFetchReturn

\* the event service has not been started
IdleService ==
    /\ sPc = "dial"
    /\ subPc = "none"
    /\ subEnd = ""
    /\ svcCancelled = FALSE
    /\ serving = "off"
    /\ fatalBy = ""
    /\ svcConn = "none"
    /\ lastQuery = NoQuery
    /\ closes = NoCloses
    /\ lastLog = NoneReceived

\* runWithReconnect has not been called
IdleDriver ==
    /\ dPc = "top"
    /\ attempt = 0
    /\ cancelled = FALSE
    /\ cancelAt = ""
    /\ conns = 0
    /\ head = "none"
    /\ remaining = 0
    /\ cause = ""
    /\ waits = <<>>
    /\ dials = 0

\* the store is not in use while the pool runs
IdleStore ==
    /\ limit = 1
    /\ events = <<>>
    /\ added = <<>>
    /\ IdleLock

InitPool ==
    /\ pc = "new"
    /\ urls \in BoundedSeqs(RawUrls, MaxUrls)
    /\ dialOk \in [1..Len(urls) -> BOOLEAN]
    /\ nodes = <<>>
    /\ primaryIdx = 0
    /\ readIdx = 0
    /\ newErr = ""
    /\ callers = [c \in MainCallers |-> IdleCaller]
    /\ last = NoOp
    /\ recent = <<>>
    /\ primaryRet = NilNode
    /\ IdlePoolRun
    /\ IdleStore
    /\ IdleDriver
    /\ IdleService
    /\ IdleDecode
    /\ IdleFetch

\* NewEthClientPool(ctx, urls)
NewEthClientPool ==
    /\ pc = "new"
    /\ LET ns == BuildNodes(urls, dialOk, Len(urls))
           err == NewPoolError(urls, ns)
       IN /\ newErr' = err
          /\ pc' = IF err = "" THEN "ready" ELSE "failed"
          /\ nodes' = IF err = "" THEN ns ELSE <<>>
          /\ last' = [NoOp EXCEPT !.op = "NewEthClientPool", !.step = "return", !.err = err]
    /\ primaryIdx' = 0
    /\ readIdx' = 0
    /\ urls' = <<>>
    /\ dialOk' = <<>>
    /\ UNCHANGED <<callers, recent, primaryRet, nonPoolVars>>

\* the bookkeeping every pool operation shares: the window of nodes returned
\* by pickReadNode restarts when a liveness flag changes. A call that repeats
\* the previous entry on an unchanged pool is a stuttering step; the same call
\* on the same pool state is also taken right after markNodeDead(UnknownUrl),
\* which changes last alone, so the step properties below see it there.
Recorded(entry, picked) ==
    /\ last' = entry
    /\ recent' = IF Alive(nodes') # Alive(nodes) THEN <<>>
                 ELSE IF picked = NilNode THEN recent
                 ELSE LastK(Append(recent, picked), Len(nodes))

\* p.pickReadNode() called on its own
PickReadNode ==
    /\ pc = "ready"
    /\ LET r == ReadScan(nodes, readIdx)
       IN /\ readIdx' = r.readIdx
          /\ UNCHANGED <<nodes, primaryIdx>>
          /\ Recorded([NoOp EXCEPT !.op = "pickReadNode", !.node = r.node], r.node)
    /\ UNCHANGED <<pc, urls, dialOk, newErr, callers, primaryRet, nonPoolVars>>

\* p.pickPrimaryNode() called on its own
PickPrimaryNode ==
    /\ pc = "ready"
    /\ LET r == PrimaryScan(nodes, primaryIdx)
       IN /\ primaryIdx' = r.primaryIdx
          /\ UNCHANGED <<nodes, readIdx>>
          /\ primaryRet' = r.node
          /\ Recorded([NoOp EXCEPT !.op = "pickPrimaryNode", !.node = r.node,
                                   !.pre = primaryRet], NilNode)
    /\ UNCHANGED <<pc, urls, dialOk, newErr, callers, nonPoolVars>>

\* p.SendDummyWrite(ctx)
SendDummyWrite ==
    /\ pc = "ready"
    /\ LET r == PrimaryScan(nodes, primaryIdx)
           err == IF r.node = NilNode THEN "no alive node for write" ELSE ""
       IN /\ primaryIdx' = r.primaryIdx
          /\ UNCHANGED <<nodes, readIdx>>
          /\ primaryRet' = r.node
          /\ Recorded([NoOp EXCEPT !.op = "SendDummyWrite", !.step = "return",
                                   !.node = r.node, !.err = err, !.pre = primaryRet], NilNode)
    /\ UNCHANGED <<pc, urls, dialOk, newErr, callers, nonPoolVars>>

\* p.markNodeDead(url, cause) called on its own
MarkNodeDead(url) ==
    /\ pc = "ready"
    /\ nodes' = MarkDead(nodes, url)
    /\ UNCHANGED <<primaryIdx, readIdx>>
    /\ Recorded([NoOp EXCEPT !.op = "markNodeDead", !.url = url,
                             !.pre = WasAlive(nodes, url)], NilNode)
    /\ UNCHANGED <<pc, urls, dialOk, newErr, callers, primaryRet, nonPoolVars>>

\* GetLatestBlockNumber / GetBalance, first statement: node := p.pickReadNode();
\* a nil node returns "no alive node for read" at once
ReadPick(c, op) ==
    /\ pc = "ready"
    /\ callers[c].at = "idle"
    /\ LET r == ReadScan(nodes, readIdx)
           err == IF r.node = NilNode THEN "no alive node for read" ELSE ""
       IN /\ readIdx' = r.readIdx
          /\ callers' = [callers EXCEPT ![c] =
                            IF r.node = NilNode THEN IdleCaller
                            ELSE [at |-> "calling", op |-> op, node |-> r.node]]
          /\ UNCHANGED <<nodes, primaryIdx>>
          /\ Recorded([NoOp EXCEPT !.op = op, !.who = c, !.node = r.node, !.err = err,
                                   !.step = IF r.node = NilNode THEN "return" ELSE "pick"],
                      r.node)
    /\ UNCHANGED <<pc, urls, dialOk, newErr, primaryRet, nonPoolVars>>

\* the rest of a read: node.Client.BlockNumber(ctx) / BalanceAt(ctx, addr, nil)
\* returns outside the pool lock; a nil err returns the value, any other err
\* runs p.markNodeDead(node.URL, err) and returns the err. The err is local to
\* the caller until markNodeDead runs, so the two are one step.
ReadCall(c, outcome) ==
    /\ pc = "ready"
    /\ callers[c].at = "calling"
    /\ LET url == NodeAt(nodes, callers[c].node).URL
       IN /\ nodes' = IF ReportsToPool(outcome) THEN MarkDead(nodes, url) ELSE nodes
          /\ Recorded([NoOp EXCEPT !.op = callers[c].op, !.who = c, !.step = "return",
                                   !.node = callers[c].node,
                                   !.err = IF outcome = "ok" THEN "" ELSE outcome], NilNode)
    /\ callers' = [callers EXCEPT ![c] = IdleCaller]
    /\ UNCHANGED <<primaryIdx, readIdx>>
    /\ UNCHANGED <<pc, urls, dialOk, newErr, primaryRet, nonPoolVars>>

NextPool ==
    \/ NewEthClientPool
    \/ PickReadNode
    \/ PickPrimaryNode
    \/ SendDummyWrite
    \/ \E url \in {nodes[i].URL : i \in DOMAIN nodes} \cup {UnknownUrl} : MarkNodeDead(url)
    \/ \E c \in DOMAIN callers, op \in Reads : ReadPick(c, op)
    \/ \E c \in DOMAIN callers, outcome \in CallOutcomes : ReadCall(c, outcome)

SpecPool == InitPool /\ [][NextPool]_vars

\* ----------------------------------------------------------- pool claims

\* the entry of a call of pickPrimaryNode, direct or from SendDummyWrite
IsPrimaryCall(entry) == entry.op \in {"pickPrimaryNode", "SendDummyWrite"}

\* the entry of a step that runs markNodeDead, direct or from the error branch of a read
CallsMarkNodeDead(entry) ==
    \/ entry.op = "markNodeDead"
    \/ entry.op \in Reads /\ entry.step = "return" /\ entry.err \in {"transport", "application"}

\* C1: while liveness does not change and k >= 1 nodes are alive, the k latest
\* pickReadNode calls returned every live node exactly once, and among the N
\* latest calls every live node was returned at least N div k times.
RoundRobinWindow ==
    pc = "ready" =>
        LET live == Alive(nodes)
            k == Cardinality(live)
            len == Len(recent)
        IN k >= 1 =>
            /\ len >= k => {recent[j] : j \in (len - k + 1)..len} = live
            /\ \A N \in 1..len : \A i \in live :
                   Cardinality({j \in (len - N + 1)..len : recent[j] = i}) >= N \div k

\* C1 witness: a pool with a dead node and at least two live ones after more
\* consecutive selections than it has live nodes
RoundRobinWindowReached ==
    /\ pc = "ready"
    /\ Cardinality(Alive(nodes)) >= 2
    /\ Cardinality(Alive(nodes)) < Len(nodes)
    /\ Len(recent) > Cardinality(Alive(nodes))

\* C2: a pickPrimaryNode call made while the node returned by the previous call
\* is alive returns that node again and leaves primaryIdx unchanged; primaryIdx
\* changes only in a pickPrimaryNode call that finds the current primary dead.
PrimarySticky ==
    [][pc = "ready" =>
         /\ (IsPrimaryCall(last') /\ primaryRet # NilNode /\ NodeAt(nodes, primaryRet).Alive)
                => (last'.node = primaryRet /\ primaryIdx' = primaryIdx)
         /\ primaryIdx' # primaryIdx
                => (IsPrimaryCall(last') /\ ~NodeAt(nodes, primaryIdx).Alive)]_vars

\* C2 witness: after a failover to a later node, a further call returned that node again
PrimaryReturnedAgain ==
    /\ pc = "ready"
    /\ IsPrimaryCall(last)
    /\ last.pre >= 1
    /\ last.node = last.pre
    /\ primaryIdx = last.node

\* C3: a pickPrimaryNode call that finds the node at primaryIdx dead returns the
\* live node of lowest index and stores that index in primaryIdx; with no live
\* node it returns nil and leaves primaryIdx unchanged.
PrimaryFailoverLowest ==
    [][(pc = "ready" /\ IsPrimaryCall(last') /\ ~NodeAt(nodes, primaryIdx).Alive) =>
         IF Alive(nodes) = {}
         THEN last'.node = NilNode /\ primaryIdx' = primaryIdx
         ELSE last'.node = Min(Alive(nodes)) /\ primaryIdx' = Min(Alive(nodes))]_vars

\* C3 witness: the call before returned node 0; this one skipped a dead node and
\* moved the primary past it
PrimaryFailedOver ==
    /\ pc = "ready"
    /\ IsPrimaryCall(last)
    /\ last.pre = 0
    /\ last.node >= 2
    /\ primaryIdx = last.node

\* C4 (as claimed): NewEthClientPool returns an error whenever no endpoint
\* dials successfully, and a pool it returns has a live node.
ConstructionNeedsLiveNode ==
    [][pc = "new" =>
         /\ (\A k \in 1..Len(urls) : TrimSpace(urls[k]) = "" \/ ~dialOk[k])
                => (pc' = "failed" /\ newErr' # "")
         /\ pc' = "ready" => Alive(nodes') # {}]_vars

\* C5 (as claimed): when a read returns a transport-level failure, the node
\* that served the call is dead, the caller has the error and is back from the
\* read, and no further node was selected.
ReadFailureMarksServingNode ==
    [][(last'.op \in Reads /\ last'.step = "return" /\ last'.err = "transport") =>
         /\ ~NodeAt(nodes', last'.node).Alive
         /\ callers'[last'.who] = IdleCaller
         /\ readIdx' = readIdx]_vars

\* C6 (as claimed): a read that returns an application-level error changes no
\* alive flag.
ApplicationErrorKeepsNodeAlive ==
    [][(last'.op \in Reads /\ last'.step = "return" /\ last'.err = "application") =>
         nodes' = nodes]_vars

\* C7: an alive flag goes from true to false only in a step that runs
\* markNodeDead; markNodeDead naming a dead record, or an endpoint the pool does
\* not hold, changes no alive flag, nor readIdx, nor primaryIdx.
MarkNodeDeadOnly ==
    [][pc = "ready" =>
         /\ (\E i \in DOMAIN nodes : nodes[i].Alive /\ ~nodes'[i].Alive)
                => CallsMarkNodeDead(last')
         /\ (last'.op = "markNodeDead" /\ WasAlive(nodes, last'.url) = 0)
                => (nodes' = nodes /\ readIdx' = readIdx /\ primaryIdx' = primaryIdx)]_vars

\* C7 witness: markNodeDead has run on a record of the pool that was dead
\* already, in a pool that still has a live node
MarkedDeadAgain ==
    /\ pc = "ready"
    /\ last.op = "markNodeDead"
    /\ last.pre = 0
    /\ \E i \in DOMAIN nodes : nodes[i].URL = last.url
    /\ Alive(nodes) # {}

\* the number of non-blank entries among urls[1..k]
Rank(us, k) == Cardinality({m \in 1..k : TrimSpace(us[m]) # ""})

\* C8: every alive node has a connection; NewEthClientPool keeps one record per
\* non-blank endpoint, in the configured order, and the record of an endpoint
\* whose dial failed is dead and has no connection.
AliveHasConnection ==
    [][/\ \A i \in DOMAIN nodes' : nodes'[i].Alive => nodes'[i].Client = i
       /\ (pc = "new" /\ pc' = "ready") =>
            /\ Len(nodes') = Rank(urls, Len(urls))
            /\ \A k \in 1..Len(urls) :
                 TrimSpace(urls[k]) # "" =>
                    LET node == nodes'[Rank(urls, k)]
                    IN /\ node.URL = TrimSpace(urls[k])
                       /\ dialOk[k] => (node.Alive /\ node.Client # NilClient)
                       /\ ~dialOk[k] => (~node.Alive /\ node.Client = NilClient)]_vars

\* C8 witness: a pool just built whose first endpoint failed to dial and whose
\* second endpoint connected
FailedDialKept ==
    /\ pc = "ready"
    /\ last.op = "NewEthClientPool"
    /\ Len(nodes) >= 2
    /\ ~nodes[1].Alive /\ nodes[1].Client = NilClient
    /\ nodes[2].Alive /\ nodes[2].Client # NilClient

\* C9: readIdx and primaryIdx are indices of nodes.
IndicesValid ==
    pc = "ready" =>
        /\ readIdx \in 0..(Len(nodes) - 1)
        /\ primaryIdx \in 0..(Len(nodes) - 1)

\* C9 witness: pickReadNode returned the last node, readIdx wrapped to 0 and
\* the primary is the last node
IndicesAtEnds ==
    /\ pc = "ready"
    /\ Len(nodes) >= 2
    /\ last.op = "pickReadNode"
    /\ last.node = Len(nodes) - 1
    /\ readIdx = 0
    /\ primaryIdx = Len(nodes) - 1

\* ----------------------------------------------------------- store model

\* payloads of the events handed to Add
Bodies == {"e1", "e2"}

\* Add with the test len(s.events) > s.limit in place of >=
AddResultLateEvict(evs, lim, e) ==
    Append(IF Len(evs) > lim THEN Tail(evs) ELSE evs, e)

\* s.events after Add(e): s.events[1:] when len(s.events) >= s.limit, then append
AddResult(evs, lim, e) ==
    Append(IF Len(evs) >= lim THEN Tail(evs) ELSE evs, e)

\* the pool is not in use while the store runs
IdlePool ==
    /\ pc = "new"
    /\ urls = <<>>
    /\ dialOk = <<>>
    /\ nodes = <<>>
    /\ primaryIdx = 0
    /\ readIdx = 0
    /\ newErr = ""
    /\ callers = [c \in MainCallers |-> IdleCaller]
    /\ last = NoOp
    /\ recent = <<>>
    /\ primaryRet = NilNode
    /\ IdlePoolRun

\* NewEventStore(limit)
InitStore ==
    /\ limit \in 1..MaxLimit
    /\ events = <<>>
    /\ added = <<>>
    /\ IdleLock
    /\ IdlePool
    /\ IdleDriver
    /\ IdleService
    /\ IdleDecode
    /\ IdleFetch

\* s.Add(e), under s.mu.Lock(); the event carries its arrival number
Add(body) ==
    /\ Len(added) < MaxAdds
    /\ LET e == [seq |-> Len(added) + 1, body |-> body]
       IN /\ events' = AddResult(events, limit, e)
          /\ added' = Append(added, e)
    /\ UNCHANGED <<limit, lockVars, nonStoreVars>>

NextStore == \E body \in Bodies : Add(body)

SpecStore == InitStore /\ [][NextStore]_vars

\* ---------------------------------------------------------- store claims

\* C10: after n Add calls the store holds the last min(n, limit) events added,
\* in the order of the calls, so never more than limit; after limit + 1 calls it
\* holds limit events, the first event added is gone and the latest one is last.
StoreHoldsLatest ==
    LET n == Len(added)
        m == IF n < limit THEN n ELSE limit
    IN /\ events = SubSeq(added, n - m + 1, n)
       /\ Len(events) <= limit
       /\ n = limit + 1 =>
            /\ Len(events) = limit
            /\ \A j \in 1..Len(events) : events[j] # added[1]
            /\ events[Len(events)] = added[n]

\* C10 witness: a store of capacity at least 2 after capacity + 1 Add calls
StoreEvictedFirst ==
    /\ limit >= 2
    /\ Len(added) = limit + 1
    /\ Len(events) = limit

\* -------------------------------------- store model, lock and memory level

\* the elements seen through slice s
View(h, s) == [i \in 1..s.len |-> h[s.arr][s.off + i]]

\* the address of the next allocation
FreshId(h) == Min({i \in 1..(Cardinality(DOMAIN h) + 1) : i \notin DOMAIN h})

\* the arrays still referenced
Collect(h, keep) == [id \in (DOMAIN h) \cap keep |-> h[id]]

\* s[1:]
Reslice1(s) == [s EXCEPT !.off = s.off + 1, !.len = s.len - 1, !.cap = s.cap - 1]

\* if len(s.events) >= s.limit { s.events = s.events[1:] }
Evict(s, lim) == IF s.len >= lim THEN Reslice1(s) ELSE s

\* the capacity append gives a grown slice (runtime growslice, below 256 elements)
Grow(oldcap, needed) == IF needed > 2 * oldcap THEN needed ELSE 2 * oldcap

\* append(s, e): in place while len < cap, else into a new array
AppendTo(h, s, e) ==
    IF s.len < s.cap
    THEN [heap |-> [h EXCEPT ![s.arr][s.off + s.len + 1] = e],
          hdr |-> [s EXCEPT !.len = s.len + 1]]
    ELSE LET c == Grow(s.cap, s.len + 1)
             id == FreshId(h)
             old == View(h, s)
         IN [heap |-> h @@ (id :> [i \in 1..c |-> IF i <= s.len THEN old[i]
                                                   ELSE IF i = s.len + 1 THEN e
                                                   ELSE NilEvent]),
             hdr |-> [arr |-> id, off |-> 0, len |-> s.len + 1, cap |-> c]]

\* List returning s.events itself
SnapshotNoCopy(h, s) == [heap |-> h, hdr |-> s]

\* out := make([]TransferEvent, len(s.events)); copy(out, s.events)
Snapshot(h, s) ==
    LET id == FreshId(h)
    IN [heap |-> h @@ (id :> View(h, s)),
        hdr |-> [arr |-> id, off |-> 0, len |-> s.len, cap |-> s.len]]

\* RLock that does not wait for the writer
CanRLockAlways(m) == TRUE

\* s.mu.RLock() returns
CanRLock(m) == ~m.writer

\* s.mu.Lock() returns
CanLock(m) == ~m.writer /\ m.readers = 0

\* NewEventStore(limit): events: make([]TransferEvent, 0, limit)
InitStoreLock ==
    /\ limit \in 1..MaxLimit
    /\ events = <<>>
    /\ added = <<>>
    /\ mu = [writer |-> FALSE, readers |-> 0]
    /\ addPc = "idle"
    /\ addEv = NilEvent
    /\ listPc = "idle"
    /\ listed = NotListed
    /\ heap = (1 :> [i \in 1..limit |-> NilEvent])
    /\ hdr = [arr |-> 1, off |-> 0, len |-> 0, cap |-> limit]
    /\ IdlePool
    /\ IdleDriver
    /\ IdleService
    /\ IdleDecode
    /\ IdleFetch

\* the memory after a step: the arrays s.events and the latest List result keep alive
Memory(h, s, l) ==
    /\ heap' = Collect(h, {s.arr, l.hdr.arr})
    /\ hdr' = s
    /\ listed' = l
    /\ events' = View(h, s)

\* store.Add(e) is called and blocks in s.mu.Lock()
AddCall(body) ==
    /\ addPc = "idle"
    /\ Len(added) < MaxAdds
    /\ addPc' = "waiting"
    /\ addEv' = [seq |-> Len(added) + 1, body |-> body]
    /\ UNCHANGED <<limit, events, added, mu, listPc, listed, heap, hdr, nonStoreVars>>

\* s.mu.Lock() returns
AddLock ==
    /\ addPc = "waiting"
    /\ CanLock(mu)
    /\ mu' = [mu EXCEPT !.writer = TRUE]
    /\ addPc' = "locked"
    /\ UNCHANGED <<limit, events, added, addEv, listPc, listed, heap, hdr, nonStoreVars>>

\* if len(s.events) >= s.limit { s.events = s.events[1:] }
AddEvict ==
    /\ addPc = "locked"
    /\ Memory(heap, Evict(hdr, limit), listed)
    /\ addPc' = "evicted"
    /\ UNCHANGED <<limit, added, mu, addEv, listPc, nonStoreVars>>

\* s.events = append(s.events, e)
AddAppend ==
    /\ addPc = "evicted"
    /\ LET r == AppendTo(heap, hdr, addEv)
       IN Memory(r.heap, r.hdr, listed)
    /\ added' = Append(added, addEv)
    /\ addPc' = "appended"
    /\ UNCHANGED <<limit, mu, addEv, listPc, nonStoreVars>>

\* the deferred s.mu.Unlock(); Add returns
AddUnlock ==
    /\ addPc = "appended"
    /\ mu' = [mu EXCEPT !.writer = FALSE]
    /\ addPc' = "idle"
    /\ addEv' = NilEvent
    /\ UNCHANGED <<limit, events, added, listPc, listed, heap, hdr, nonStoreVars>>

\* store.List() is called and blocks in s.mu.RLock()
ListCall ==
    /\ listPc = "idle"
    /\ listPc' = "waiting"
    /\ UNCHANGED <<limit, events, added, mu, addPc, addEv, listed, heap, hdr, nonStoreVars>>

\* s.mu.RLock() returns
ListRLock ==
    /\ listPc = "waiting"
    /\ CanRLock(mu)
    /\ mu' = [mu EXCEPT !.readers = mu.readers + 1]
    /\ listPc' = "rlocked"
    /\ UNCHANGED <<limit, events, added, addPc, addEv, listed, heap, hdr, nonStoreVars>>

\* out := make(..); copy(out, s.events)
ListCopy ==
    /\ listPc = "rlocked"
    /\ LET r == Snapshot(Collect(heap, {hdr.arr}), hdr)
       IN Memory(r.heap, hdr, [hdr |-> r.hdr, val |-> View(r.heap, r.hdr), at |-> Len(added)])
    /\ listPc' = "copied"
    /\ UNCHANGED <<limit, added, mu, addPc, addEv, nonStoreVars>>

\* the deferred s.mu.RUnlock(); List returns out
ListRUnlock ==
    /\ listPc = "copied"
    /\ mu' = [mu EXCEPT !.readers = mu.readers - 1]
    /\ listPc' = "idle"
    /\ UNCHANGED <<limit, events, added, addPc, addEv, listed, heap, hdr, nonStoreVars>>

NextStoreLock ==
    \/ \E body \in Bodies : AddCall(body)
    \/ AddLock
    \/ AddEvict
    \/ AddAppend
    \/ AddUnlock
    \/ ListCall
    \/ ListRLock
    \/ ListCopy
    \/ ListRUnlock

SpecStoreLock == InitStoreLock /\ [][NextStoreLock]_vars

\* ------------------------------------- store claims, lock and memory level

\* C11: the sequence a List call returns is the store as it stood after the
\* Adds completed by then, the last min(n, limit) events added; once limit
\* events have been added it has exactly limit elements.
ListSeesWholeAdds ==
    listed.hdr.arr # 0 =>
        /\ listed.val = LastK(SubSeq(added, 1, listed.at), limit)
        /\ listed.at >= limit => Len(listed.val) = limit

\* C11 witness: List copied a full store that has evicted, while an Add call
\* waits for the lock
ListedWhileAdding ==
    /\ listPc = "copied"
    /\ addPc = "waiting"
    /\ listed.at > limit
    /\ Len(listed.val) = limit

\* C12: the slice List returned shares no array with s.events and shows the
\* elements and length it had when it was returned, whatever Add does later;
\* the steps of List leave s.events and its array as they were.
SnapshotIsCopy ==
    [][/\ listed'.hdr.arr # 0 =>
            /\ listed'.hdr.arr # hdr'.arr
            /\ View(heap', listed'.hdr) = listed'.val
       /\ listPc' # listPc =>
            /\ events' = events
            /\ hdr' = hdr
            /\ heap'[hdr.arr] = heap[hdr.arr]]_vars

\* C12 witness: after a List on a full store an Add has evicted and appended
SnapshotOutlivedAdd ==
    /\ listed.hdr.arr # 0
    /\ listPc = "idle"
    /\ listed.at >= limit
    /\ Len(added) > listed.at
    /\ Len(listed.val) = limit

\* ------------------------------------------------- reconnect driver model

\* the ceiling of the backoff, in seconds
MaxBackoff == 60

\* what the node can put on the headers channel
Headers == {"nil", "block"}

\* math.Pow(2, float64(n))
RECURSIVE Pow2(_)
Pow2(n) == IF n = 0 THEN 1 ELSE 2 * Pow2(n - 1)

\* a backoff without ceiling
BackoffUncapped(a) == Pow2(a)

\* sec := int(math.Min(60, math.Pow(2, float64(attempt))))
Backoff(a) == Min({MaxBackoff, Pow2(a)})

\* attempt counted twice
NextAttemptTwice(a) == a + 2

\* attempt++
NextAttempt(a) == a + 1

\* a Close that leaves the connection open
CloseLeaks(c) == c

\* client.Close()
Close(c) == c - 1

\* a context whose Done channel never becomes ready
DoneNever(c) == FALSE

\* <-ctx.Done() is ready
Done(c) == c

\* a sleep that only ends when its timer fires
SleepIgnoresCancel(c, rem) == rem = 0

\* select { case <-t.C: case <-ctx.Done(): } can return
SleepReturns(c, rem) == rem = 0 \/ Done(c)

\* the state of the specification's machine the driver is in
Phase(p) ==
    CASE p \in {"top", "checked", "dial", "subscribe"} -> "Disconnected"
      [] p = "streaming" -> "Streaming"
      [] p = "backoff" -> "Backoff"
      [] p = "terminated" -> "Terminated"

\* runWithReconnect(ctx, rpcURL) is called: var attempt int
InitDriver ==
    /\ dPc = "top"
    /\ attempt = 0
    /\ cancelled = FALSE
    /\ cancelAt = ""
    /\ conns = 0
    /\ head = "none"
    /\ remaining = 0
    /\ cause = ""
    /\ waits = <<>>
    /\ dials = 0
    /\ IdlePool
    /\ IdleStore
    /\ IdleService
    /\ IdleDecode
    /\ IdleFetch

\* an error path that reconnects without sleeping
SleepSkipped(why) ==
    /\ dPc' = "top"
    /\ UNCHANGED <<remaining, cause, waits>>

\* sleepWithBackoff(ctx, attempt) is entered: the timer is set
SleepWithBackoff(why) ==
    /\ dPc' = "backoff"
    /\ remaining' = Backoff(attempt)
    /\ cause' = why
    /\ waits' = Append(waits, [k |-> attempt, sec |-> Backoff(attempt)])

\* the signal goroutine calls cancel()
Cancel ==
    /\ ~cancelled
    /\ cancelled' = TRUE
    /\ cancelAt' = dPc
    /\ UNCHANGED <<dPc, attempt, conns, head, remaining, cause, waits, dials, nonDriverVars>>

\* loop top: select { case <-ctx.Done(): return; default: }
LoopTopReturn ==
    /\ dPc = "top"
    /\ Done(cancelled)
    /\ dPc' = "terminated"
    /\ UNCHANGED <<attempt, cancelled, cancelAt, conns, head, remaining, cause, waits, dials, nonDriverVars>>

\* loop top, default case of the select: ctx.Done() is not ready
LoopTopDefault ==
    /\ dPc = "top"
    /\ ~Done(cancelled)
    /\ attempt < MaxAttempts
    /\ dPc' = "checked"
    /\ UNCHANGED <<attempt, cancelled, cancelAt, conns, head, remaining, cause, waits, dials, nonDriverVars>>

\* attempt++, log.Printf and the call of ethclient.DialContext(ctx, rpcURL)
LoopTopAttempt ==
    /\ dPc = "checked"
    /\ attempt < MaxAttempts
    /\ attempt' = NextAttempt(attempt)
    /\ dPc' = "dial"
    /\ UNCHANGED <<cancelled, cancelAt, conns, head, remaining, cause, waits, dials, nonDriverVars>>

\* ethclient.DialContext returns
Dial(ok) ==
    /\ dPc = "dial"
    /\ dials' = dials + 1
    /\ IF ok
       THEN /\ conns' = conns + 1
            /\ dPc' = "subscribe"
            /\ UNCHANGED <<remaining, cause, waits>>
       ELSE /\ SleepWithBackoff("dial")
            /\ UNCHANGED conns
    /\ UNCHANGED <<attempt, cancelled, cancelAt, head, nonDriverVars>>

\* client.SubscribeNewHead returns
Subscribe(ok) ==
    /\ dPc = "subscribe"
    /\ IF ok
       THEN /\ dPc' = "streaming"
            /\ UNCHANGED <<conns, remaining, cause, waits>>
       ELSE /\ conns' = Close(conns)
            /\ SleepWithBackoff("subscribe")
    /\ UNCHANGED <<attempt, cancelled, cancelAt, head, dials, nonDriverVars>>

\* the subscription offers a header on the unbuffered channel
HeaderArrives(h) ==
    /\ dPc = "streaming"
    /\ head = "none"
    /\ head' = h
    /\ UNCHANGED <<dPc, attempt, cancelled, cancelAt, conns, remaining, cause, waits, dials, nonDriverVars>>

\* case h := <-headers: nil is skipped, a block is printed
StreamHeader ==
    /\ dPc = "streaming"
    /\ head # "none"
    /\ head' = "none"
    /\ UNCHANGED <<dPc, attempt, cancelled, cancelAt, conns, remaining, cause, waits, dials, nonDriverVars>>

\* case err := <-sub.Err(): close, back off, reconnect
StreamErr ==
    /\ dPc = "streaming"
    /\ conns' = Close(conns)
    /\ head' = "none"
    /\ SleepWithBackoff("suberr")
    /\ UNCHANGED <<attempt, cancelled, cancelAt, dials, nonDriverVars>>

\* case <-ctx.Done(): close and return
StreamCancel ==
    /\ dPc = "streaming"
    /\ Done(cancelled)
    /\ conns' = Close(conns)
    /\ head' = "none"
    /\ dPc' = "terminated"
    /\ UNCHANGED <<attempt, cancelled, cancelAt, remaining, cause, waits, dials, nonDriverVars>>

\* one second of the backoff timer passes
Tick ==
    /\ dPc = "backoff"
    /\ remaining > 0
    /\ remaining' = remaining - 1
    /\ UNCHANGED <<dPc, attempt, cancelled, cancelAt, conns, head, cause, waits, dials, nonDriverVars>>

\* sleepWithBackoff returns (timer fired or ctx done); continue / goto RECONNECT
BackoffReturn ==
    /\ dPc = "backoff"
    /\ SleepReturns(cancelled, remaining)
    /\ dPc' = "top"
    /\ UNCHANGED <<attempt, cancelled, cancelAt, conns, head, remaining, cause, waits, dials, nonDriverVars>>

NextDriver ==
    \/ Cancel
    \/ LoopTopReturn
    \/ LoopTopDefault
    \/ LoopTopAttempt
    \/ \E ok \in BOOLEAN : Dial(ok)
    \/ \E ok \in BOOLEAN : Subscribe(ok)
    \/ \E h \in Headers : HeaderArrives(h)
    \/ StreamHeader
    \/ StreamErr
    \/ StreamCancel
    \/ Tick
    \/ BackoffReturn

SpecDriver == InitDriver /\ [][NextDriver]_vars

\* the driver goroutine is scheduled, calls into the network return, a select
\* with a ready case takes it, and the timer runs
SpecDriverFair ==
    /\ SpecDriver
    /\ WF_vars(LoopTopReturn)
    /\ WF_vars(LoopTopDefault)
    /\ WF_vars(LoopTopAttempt)
    /\ WF_vars(\E ok \in BOOLEAN : Dial(ok))
    /\ WF_vars(\E ok \in BOOLEAN : Subscribe(ok))
    /\ WF_vars(StreamCancel)
    /\ WF_vars(Tick)
    /\ WF_vars(BackoffReturn)

\* ------------------------------------------------ reconnect driver claims

\* min(60, 2^k)
Ceiling(k) == IF 2^k < 60 THEN 2^k ELSE 60

\* C13: the wait that follows the k-th connection attempt is min(60, 2^k)
\* seconds; successive waits never decrease and never exceed 60 seconds.
BackoffSchedule ==
    /\ \A i \in 1..Len(waits) :
        /\ waits[i].sec = Ceiling(waits[i].k)
        /\ waits[i].sec <= 60
        /\ \A j \in 1..i : waits[j].sec <= waits[i].sec
    /\ dPc = "backoff" => remaining <= waits[Len(waits)].sec

\* C13 witness: the waits have doubled up to the ceiling and stayed there
BackoffReachedCeiling ==
    /\ Len(waits) >= 7
    /\ waits[1].sec = 2
    /\ waits[5].sec = 32
    /\ waits[6].sec = 60
    /\ waits[7].sec = 60

\* C14: once cancellation is signalled during a backoff the sleep can return
\* without the timer firing, and the driver makes no dial or subscribe
\* attempt any more: it only leaves the wait and terminates.
CancelledBackoffStops ==
    /\ [](cancelled /\ dPc = "backoff" => ENABLED BackoffReturn)
    /\ [][cancelled /\ cancelAt = "backoff" =>
            /\ attempt' = attempt
            /\ dials' = dials
            /\ conns' = conns
            /\ dPc' \in {"backoff", "top", "terminated"}
            /\ dPc = "top" => dPc' = "terminated"]_vars

\* C14 witness: cancelled in the backoff after a subscription error, the
\* driver terminated with time left on the timer
CancelledInBackoff ==
    /\ dPc = "terminated"
    /\ cancelAt = "backoff"
    /\ cause = "suberr"
    /\ remaining > 0

\* C15 as stated: the only transitions are Disconnected to Streaming or
\* Backoff, Streaming to Backoff, Backoff to Disconnected, and Streaming or
\* Backoff to Terminated on cancellation.
TransitionsAsListed ==
    [][LET a == Phase(dPc)
           b == Phase(dPc')
       IN a # b =>
            \/ a = "Disconnected" /\ b = "Streaming" /\ conns' = 1
            \/ a = "Disconnected" /\ b = "Backoff" /\ cause' \in {"dial", "subscribe"}
            \/ a = "Streaming" /\ b = "Backoff" /\ cause' = "suberr"
            \/ a = "Backoff" /\ b = "Disconnected"
            \/ a \in {"Streaming", "Backoff"} /\ b = "Terminated" /\ cancelled]_vars

\* C15: the transitions are those listed, and Disconnected to Terminated on
\* cancellation (the check at the top of the loop); none leaves Terminated.
TransitionsWithLoopTop ==
    [][LET a == Phase(dPc)
           b == Phase(dPc')
       IN a # b =>
            \/ a = "Disconnected" /\ b = "Streaming" /\ conns' = 1
            \/ a = "Disconnected" /\ b = "Backoff" /\ cause' \in {"dial", "subscribe"}
            \/ a = "Streaming" /\ b = "Backoff" /\ cause' = "suberr"
            \/ a = "Backoff" /\ b = "Disconnected"
            \/ a \in {"Disconnected", "Streaming", "Backoff"} /\ b = "Terminated" /\ cancelled]_vars

\* C15 witness: cancelled at the top of the loop, the driver went from
\* Disconnected to Terminated
TerminatedFromTop ==
    /\ dPc = "terminated"
    /\ cancelAt = "top"
    /\ attempt = 0

\* C16: attempt grows by one exactly when a connection attempt starts and
\* never otherwise changes; every backoff, the one after a subscription
\* error included, is that of the number of dials made so far.
AttemptCountsDials ==
    [][/\ attempt' = attempt + (IF dPc = "checked" /\ dPc' = "dial" THEN 1 ELSE 0)
       /\ attempt' = dials' + (IF dPc' = "dial" THEN 1 ELSE 0)
       /\ dPc # "backoff" /\ dPc' = "backoff" =>
            /\ waits'[Len(waits')].k = dials'
            /\ remaining' = Ceiling(dials')]_vars

\* C16 witness: after a Streaming epoch ended by a subscription error the
\* next attempt is counted on from the attempts made before
AttemptKeptAfterEpoch ==
    /\ dPc = "dial"
    /\ cause = "suberr"
    /\ attempt >= 3

\* C17: at most one connection is open, it is open only between a
\* successful dial and the end of its subscription, and none is open when
\* the driver dials, waits or has terminated.
OneConnection ==
    /\ conns \in {0, 1}
    /\ dPc \in {"top", "checked", "dial", "backoff", "terminated"} => conns = 0
    /\ dPc \in {"subscribe", "streaming"} => conns = 1

\* C17 witness: the driver terminated out of the second connection it opened
ClosedOnTermination ==
    /\ dPc = "terminated"
    /\ cancelAt = "streaming"
    /\ dials >= 2
    /\ conns = 0

\* C18: once cancelled the driver eventually terminates, it terminates only if
\* cancelled, and after a failure it eventually attempts again unless
\* cancelled (attempts are followed up to MaxAttempts).
CancelTerminates ==
    /\ (cancelled ~> dPc = "terminated")
    /\ [](dPc = "terminated" => cancelled)
    /\ ((dPc = "backoff" /\ attempt < MaxAttempts) ~> (dPc = "dial" \/ cancelled))

\* C18 witness: cancelled while streaming, the driver terminated
TerminatedFromStreaming ==
    /\ dPc = "terminated"
    /\ cancelAt = "streaming"
    /\ attempt >= 1

\* --------------------------------------------------- event service model

\* store := NewEventStore(100)
ServiceLimit == 100

\* most topics a received log carries
MaxTopics == 3

\* a received log: its number of topics, whether its data unpacks as Transfer, its content
Logs == [topics : 0..MaxTopics, dataOk : BOOLEAN, body : Bodies]

\* a loop that stores a log whose data does not unpack
StoredDespiteBadData(l) == l.topics > 0

\* the log gets past both `continue`s of the loop
Stored(l) == l.topics > 0 /\ l.dataOk

\* the process has neither returned from main nor exited in log.Fatalf
Running(p) == p \notin {"exited", "fatal"}

\* the program is started
InitService ==
    /\ sPc = "dial"
    /\ subPc = "none"
    /\ subEnd = ""
    /\ svcCancelled = FALSE
    /\ serving = "off"
    /\ fatalBy = ""
    /\ svcConn = "none"
    /\ lastQuery = NoQuery
    /\ closes = NoCloses
    /\ lastLog = NoneReceived
    /\ limit = 0
    /\ events = <<>>
    /\ added = <<>>
    /\ IdleLock
    /\ IdlePool
    /\ IdleDriver
    /\ IdleDecode
    /\ IdleFetch

\* log.Fatalf: os.Exit(1) ends every goroutine and the listener; no defer runs
Fatalf(by) ==
    /\ sPc' = "fatal"
    /\ fatalBy' = by
    /\ subPc' = IF subPc \in {"subscribing", "streaming"} THEN "killed" ELSE subPc
    /\ serving' = IF serving \in {"starting", "listening"} THEN "closed" ELSE serving

\* client, err := ethclient.DialContext(ctx, rpcURL)
MainDial(ok) ==
    /\ sPc = "dial"
    /\ IF ok
       THEN /\ sPc' = "start"
            /\ svcConn' = "open"
            /\ UNCHANGED <<subPc, serving, fatalBy>>
       ELSE /\ Fatalf("dial")
            /\ UNCHANGED svcConn
    /\ UNCHANGED <<subEnd, svcCancelled, lastQuery, closes, lastLog, limit, events, added, nonServiceVars>>

\* NewEventStore(100), go subscribeTransferEvents(..), go server.ListenAndServe()
MainStart ==
    /\ sPc = "start"
    /\ limit' = ServiceLimit
    /\ subPc' = "subscribing"
    /\ serving' = "starting"
    /\ sPc' = "running"
    /\ UNCHANGED <<subEnd, svcCancelled, fatalBy, svcConn, lastQuery, closes, lastLog, events, added, nonServiceVars>>

\* server.ListenAndServe() binds the port, or fails and calls log.Fatalf
ServerListen(ok) ==
    /\ Running(sPc)
    /\ serving = "starting"
    /\ IF ok
       THEN /\ serving' = "listening"
            /\ UNCHANGED <<sPc, subPc, fatalBy>>
       ELSE Fatalf("listen")
    /\ UNCHANGED <<subEnd, svcCancelled, svcConn, lastQuery, closes, lastLog, limit, events, added, nonServiceVars>>

\* sub, err := client.SubscribeFilterLogs(ctx, query, logsCh); on error log.Fatalf
SubSubscribe(ok) ==
    /\ Running(sPc)
    /\ subPc = "subscribing"
    /\ IF ok
       THEN /\ subPc' = "streaming"
            /\ UNCHANGED <<sPc, serving, fatalBy>>
       ELSE Fatalf("subscribe")
    /\ UNCHANGED <<subEnd, svcCancelled, svcConn, lastQuery, closes, lastLog, limit, events, added, nonServiceVars>>

\* case vLog := <-logsCh: skip, or decode and store.Add
SubLog(l) ==
    /\ Running(sPc)
    /\ subPc = "streaming"
    /\ Len(added) < MaxAdds
    /\ IF Stored(l)
       THEN LET e == [seq |-> Len(added) + 1, body |-> l.body]
            IN /\ events' = AddResult(events, limit, e)
               /\ added' = Append(added, e)
       ELSE UNCHANGED <<events, added>>
    /\ lastLog' = l
    /\ UNCHANGED <<sPc, subPc, subEnd, svcCancelled, serving, fatalBy, svcConn, lastQuery, closes, limit, nonServiceVars>>

\* case err := <-sub.Err(): log and return
SubErr ==
    /\ Running(sPc)
    /\ subPc = "streaming"
    /\ subPc' = "returned"
    /\ subEnd' = "suberr"
    /\ UNCHANGED <<sPc, svcCancelled, serving, fatalBy, svcConn, lastQuery, closes, lastLog, limit, events, added, nonServiceVars>>

\* case <-ctx.Done(): log and return
SubCancel ==
    /\ Running(sPc)
    /\ subPc = "streaming"
    /\ svcCancelled
    /\ subPc' = "returned"
    /\ subEnd' = "cancelled"
    /\ UNCHANGED <<sPc, svcCancelled, serving, fatalBy, svcConn, lastQuery, closes, lastLog, limit, events, added, nonServiceVars>>

\* a client sends GET /events: the handler answers store.List() while the
\* server listens; otherwise the request fails
Query ==
    /\ sPc \notin {"dial", "start"}
    /\ lastQuery' = IF serving = "listening"
                    THEN [asked |-> TRUE, during |-> sPc, serving |-> serving, ok |-> TRUE, val |-> events]
                    ELSE [asked |-> TRUE, during |-> sPc, serving |-> serving, ok |-> FALSE, val |-> <<>>]
    /\ UNCHANGED <<sPc, subPc, subEnd, svcCancelled, serving, fatalBy, svcConn, closes, lastLog, limit, events, added, nonServiceVars>>

\* sig := <-sigCh
Signal ==
    /\ sPc = "running"
    /\ sPc' = "signalled"
    /\ UNCHANGED <<subPc, subEnd, svcCancelled, serving, fatalBy, svcConn, lastQuery, closes, lastLog, limit, events, added, nonServiceVars>>

\* _ = server.Shutdown(shutdownCtx)
ServerShutdown ==
    /\ sPc = "signalled"
    /\ serving' = "closed"
    /\ closes' = [closes EXCEPT !.server = closes.server + 1]
    /\ sPc' = "stopped"
    /\ UNCHANGED <<subPc, subEnd, svcCancelled, fatalBy, svcConn, lastQuery, lastLog, limit, events, added, nonServiceVars>>

\* cancel()
MainCancel ==
    /\ sPc = "stopped"
    /\ svcCancelled' = TRUE
    /\ sPc' = "cancelled"
    /\ UNCHANGED <<subPc, subEnd, serving, fatalBy, svcConn, lastQuery, closes, lastLog, limit, events, added, nonServiceVars>>

\* main returns: the deferred client.Close() runs and the process ends
MainReturn ==
    /\ sPc = "cancelled"
    /\ svcConn' = "closed"
    /\ closes' = [closes EXCEPT !.conn = closes.conn + 1]
    /\ sPc' = "exited"
    /\ subPc' = IF subPc \in {"subscribing", "streaming"} THEN "killed" ELSE subPc
    /\ UNCHANGED <<subEnd, svcCancelled, serving, fatalBy, lastQuery, lastLog, limit, events, added, nonServiceVars>>

NextService ==
    \/ \E ok \in BOOLEAN : MainDial(ok)
    \/ MainStart
    \/ \E ok \in BOOLEAN : ServerListen(ok)
    \/ \E ok \in BOOLEAN : SubSubscribe(ok)
    \/ \E l \in Logs : SubLog(l)
    \/ SubErr
    \/ SubCancel
    \/ Query
    \/ Signal
    \/ ServerShutdown
    \/ MainCancel
    \/ MainReturn

SpecService == InitService /\ [][NextService]_vars

\* --------------------------------------------------- event service claims

\* C19: the subscription goroutine ends only on cancellation, and a failed
\* subscribe never ends the process: both lead to a new subscription attempt.
SubscriptionStopsOnlyOnCancel ==
    /\ subPc = "returned" => subEnd = "cancelled"
    /\ fatalBy # "subscribe"

\* C20: a failed subscribe does not stop the process, and a query made before
\* shutdown to a service that was listening, or that a failed subscribe
\* has stopped, is answered.
QueryAlwaysAnswered ==
    /\ fatalBy # "subscribe"
    /\ (/\ lastQuery.asked
        /\ lastQuery.during \in {"running", "fatal"}
        /\ lastQuery.serving = "listening" \/ fatalBy = "subscribe")
        => lastQuery.ok

\* C21: when main has returned from the graceful shutdown, cancellation was
\* signalled, the subscription goroutine had returned, and server.Shutdown
\* and client.Close were each called exactly once.
ShutdownWaitsForSubscription ==
    sPc = "exited" =>
        /\ svcCancelled
        /\ subPc = "returned"
        /\ closes = [server |-> 1, conn |-> 1]
        /\ serving = "closed"
        /\ svcConn = "closed"

\* ----------------------------------------------------- log decoder model

\* bytes of a topic, of a hash and of a word of ABI-encoded data
HashLength == 32

\* bytes of an address
AddressLength == 20

\* n zero bytes
Zeros(n) == [i \in 1..n |-> 0]

\* crypto.Keccak256Hash([]byte(event.Sig)) for the signatures in use
Keccak256Hash(sig) ==
    CASE sig = "Transfer(address,address,uint256)" ->
            <<221, 242, 82, 173, 27, 226, 200, 155, 105, 194, 176, 104, 252, 55, 141, 170,
              149, 43, 167, 241, 99, 196, 161, 22, 40, 245, 90, 77, 245, 35, 179, 239>>
      [] sig = "Approval(address,address,uint256)" ->
            <<140, 91, 225, 229, 235, 236, 125, 91, 209, 79, 113, 66, 125, 30, 132, 243,
              221, 3, 20, 192, 247, 178, 41, 30, 91, 32, 10, 200, 199, 195, 185, 37>>
      [] sig = "Locked(uint256,address,address)" ->
            <<178, 22, 152, 205, 184, 97, 80, 29, 101, 19, 30, 253, 148, 5, 2, 5,
              157, 170, 96, 96, 151, 6, 196, 80, 90, 249, 90, 121, 163, 210, 50, 188>>

\* event Transfer(address indexed from, address indexed to, uint256 value)
TransferEventSig ==
    [name |-> "Transfer", Sig |-> "Transfer(address,address,uint256)",
     Inputs |-> << [Indexed |-> TRUE, Name |-> "from", Type |-> "address"],
                   [Indexed |-> TRUE, Name |-> "to", Type |-> "address"],
                   [Indexed |-> FALSE, Name |-> "value", Type |-> "uint256"] >>]

\* event Approval(address indexed owner, address indexed spender, uint256 value)
ApprovalEventSig ==
    [name |-> "Approval", Sig |-> "Approval(address,address,uint256)",
     Inputs |-> << [Indexed |-> TRUE, Name |-> "owner", Type |-> "address"],
                   [Indexed |-> TRUE, Name |-> "spender", Type |-> "address"],
                   [Indexed |-> FALSE, Name |-> "value", Type |-> "uint256"] >>]

\* an event that declares a non-indexed parameter before its indexed ones:
\* event Locked(uint256 amount, address indexed owner, address indexed beneficiary)
LockedEventSig ==
    [name |-> "Locked", Sig |-> "Locked(uint256,address,address)",
     Inputs |-> << [Indexed |-> FALSE, Name |-> "amount", Type |-> "uint256"],
                   [Indexed |-> TRUE, Name |-> "owner", Type |-> "address"],
                   [Indexed |-> TRUE, Name |-> "beneficiary", Type |-> "address"] >>]

\* parsedABI.Events as abi.JSON builds it from erc20ABIJSON, and a second
\* descriptor parseLogEvent can be handed
Descriptors == { {TransferEventSig, ApprovalEventSig}, {TransferEventSig, LockedEventSig} }

\* an address with the given first and last byte
AddressOf(hi, lo) == <<hi>> \o Zeros(AddressLength - 2) \o <<lo>>

\* the zero address and one with bytes at both ends
Addresses == {AddressOf(0, 0), AddressOf(171, 205)}

\* uint256 values that fit the integers of the model checker
Values == {0, 1, 65539}

\* a topic that is neither a known signature hash nor a padded address
DirtyWord == [i \in 1..HashLength |-> 255]

\* an address as the node encodes it in a topic: left-padded with zeros
PadAddress(a) == Zeros(HashLength - AddressLength) \o a

\* a uint256 as the node encodes it in the data: n bytes, big-endian
RECURSIVE BigEndian(_, _)
BigEndian(v, n) == IF n = 0 THEN <<>> ELSE Append(BigEndian(v \div 256, n - 1), v % 256)

\* an address decoder that keeps the leading bytes
BytesToAddressLeft(b) == SubSeq(b, 1, AddressLength)

\* common.BytesToAddress(b): the last 20 bytes, left-padded if shorter
BytesToAddress(b) ==
    IF Len(b) > AddressLength
    THEN SubSeq(b, Len(b) - AddressLength + 1, Len(b))
    ELSE Zeros(AddressLength - Len(b)) \o b

\* new(big.Int).SetBytes(b): big-endian unsigned integer
RECURSIVE SetBytes(_)
SetBytes(b) ==
    IF b = <<>> THEN 0 ELSE SetBytes(SubSeq(b, 1, Len(b) - 1)) * 256 + b[Len(b)]

\* .Hex(): two hexadecimal digits per byte (digits as numbers, case aside)
Hex(b) ==
    [i \in 1..(2 * Len(b)) |->
        IF i % 2 = 1 THEN b[(i + 1) \div 2] \div 16 ELSE b[i \div 2] % 16]

\* (*big.Int).String(): decimal digits, most significant first
RECURSIVE String(_)
String(n) == IF n < 10 THEN <<n>> ELSE Append(String(n \div 10), n % 10)

\* the non-indexed inputs of an event, in declaration order
NonIndexed(inputs) == SelectSeq(inputs, LAMBDA in : ~in.Indexed)

\* parsedABI.Unpack(name, data) fails: no data while arguments are expected,
\* or data shorter than one word per argument
UnpackFails(inputs, data) ==
    IF Len(data) = 0
    THEN Len(NonIndexed(inputs)) # 0
    ELSE Len(data) < HashLength * Len(NonIndexed(inputs))

\* the value parsedABI.Unpack returns for the k-th non-indexed input (k from 1)
UnpackValue(inputs, data, k) ==
    LET word == SubSeq(data, HashLength * (k - 1) + 1, HashLength * k)
    IN IF NonIndexed(inputs)[k].Type = "address"
       THEN [type |-> "address", text |-> Hex(BytesToAddress(word))]
       ELSE [type |-> "uint256", text |-> String(SetBytes(word))]

\* the events of the descriptor whose signature hash is the topic
MatchingEvents(abiEvents, topic) == {e \in abiEvents : Keccak256Hash(e.Sig) = topic}

\* a cursor that counts every declared parameter
DeclaredRank(inputs, i) == i - 1

\* indexedParamIndex when the loop reaches input i: the indexed inputs before it
IndexedRank(inputs, i) == Cardinality({j \in 1..(i - 1) : inputs[j].Indexed})

\* topicIndex := 1 + indexedParamIndex
TopicIndex(inputs, i) == 1 + IndexedRank(inputs, i)

\* what the switch on input.Type.T prints for a topic
TopicValue(type, topic) ==
    CASE type = "address" -> [type |-> type, text |-> Hex(BytesToAddress(topic))]
      [] type = "uint256" -> [type |-> type, text |-> String(SetBytes(topic))]
      [] OTHER -> [type |-> type, text |-> Hex(topic)]

\* the indexed parameters parseLogEvent prints: position, name and value
IndexedPrinted(inputs, topics) ==
    LET idx == [i \in 1..Len(inputs) |-> i]
        keep == SelectSeq(idx, LAMBDA i : inputs[i].Indexed /\ TopicIndex(inputs, i) < Len(topics))
    IN [k \in 1..Len(keep) |->
            [pos |-> keep[k],
             name |-> inputs[keep[k]].Name,
             value |-> TopicValue(inputs[keep[k]].Type, topics[TopicIndex(inputs, keep[k]) + 1])]]

\* the non-indexed parameters parseLogEvent prints once Unpack succeeded
NonIndexedPrinted(inputs, data) ==
    LET idx == [i \in 1..Len(inputs) |-> i]
        keep == SelectSeq(idx, LAMBDA i : ~inputs[i].Indexed)
    IN [k \in 1..Len(keep) |->
            [pos |-> keep[k],
             name |-> inputs[keep[k]].Name,
             value |-> UnpackValue(inputs, data, k)]]

\* parseLogEvent(vLog, parsedABI): what it prints
Parsed(log, abiEvents) ==
    LET none == [by |-> "parseLogEvent", event |-> "", unknown |-> FALSE,
                 indexed |-> <<>>, nonIndexed |-> <<>>, dataErr |-> FALSE]
    IN IF Len(log.Topics) = 0 THEN none
       ELSE IF MatchingEvents(abiEvents, log.Topics[1]) = {} THEN [none EXCEPT !.unknown = TRUE]
       ELSE LET e == CHOOSE x \in MatchingEvents(abiEvents, log.Topics[1]) : TRUE
                unpacks == Len(log.Data) > 0 /\ Len(NonIndexed(e.Inputs)) > 0
            IN [by |-> "parseLogEvent", event |-> e.name, unknown |-> FALSE,
                indexed |-> IndexedPrinted(e.Inputs, log.Topics),
                nonIndexed |-> IF unpacks /\ ~UnpackFails(e.Inputs, log.Data)
                               THEN NonIndexedPrinted(e.Inputs, log.Data) ELSE <<>>,
                dataErr |-> unpacks /\ UnpackFails(e.Inputs, log.Data)]

\* the zero value of TransferEvent
NilTransfer == [BlockNumber |-> 0, TxHash |-> <<>>, From |-> <<>>, To |-> <<>>, Value |-> <<>>]

\* the log case of subscribeTransferEvents: whether store.Add is called, and with what
TransferOf(log) ==
    IF Len(log.Topics) = 0 \/ UnpackFails(TransferEventSig.Inputs, log.Data)
    THEN [by |-> "subscribeTransferEvents", stored |-> FALSE, event |-> NilTransfer]
    ELSE LET both == Len(log.Topics) >= 3
         IN [by |-> "subscribeTransferEvents", stored |-> TRUE,
             event |-> [BlockNumber |-> log.BlockNumber,
                        TxHash |-> Hex(log.TxHash),
                        From |-> Hex(IF both THEN BytesToAddress(log.Topics[2]) ELSE Zeros(AddressLength)),
                        To |-> Hex(IF both THEN BytesToAddress(log.Topics[3]) ELSE Zeros(AddressLength)),
                        Value |-> UnpackValue(TransferEventSig.Inputs, log.Data, 1).text]]

\* one log of handleParseEvent: whether it is taken as a Transfer, and the
\* "Complete Parsed Event" it prints
CompleteParsed(log) ==
    LET none == [by |-> "handleParseEvent", matched |-> FALSE, complete |-> FALSE,
                 from |-> <<>>, to |-> <<>>, value |-> <<>>]
    IN IF Len(log.Topics) = 0 \/ log.Topics[1] # Keccak256Hash(TransferEventSig.Sig) THEN none
       ELSE IF Len(log.Topics) >= 3 /\ Len(log.Data) > 0
                /\ ~UnpackFails(TransferEventSig.Inputs, log.Data)
       THEN [by |-> "handleParseEvent", matched |-> TRUE, complete |-> TRUE,
             from |-> Hex(BytesToAddress(log.Topics[2])),
             to |-> Hex(BytesToAddress(log.Topics[3])),
             value |-> UnpackValue(TransferEventSig.Inputs, log.Data, 1).text]
       ELSE [none EXCEPT !.matched = TRUE]

\* topics[0] of the logs decoded: the declared signatures and an unknown one
FirstTopics ==
    {Keccak256Hash(e.Sig) : e \in {TransferEventSig, ApprovalEventSig, LockedEventSig}} \cup {DirtyWord}

\* topics[1..] of the logs decoded: padded addresses and a word that is none
IndexedTopics == {PadAddress(a) : a \in Addresses} \cup {DirtyWord}

\* the topic lists of the logs decoded, MaxTopics topics at most
TopicLists ==
    {<<>>} \cup {<<t>> \o r : t \in FirstTopics, r \in BoundedSeqs(IndexedTopics, MaxTopics - 1)}

\* the data of the logs decoded: none, a cut word, one word, two words
DataFields ==
    {<<>>, SubSeq(BigEndian(1, HashLength), 1, HashLength - 1)}
        \cup {BigEndian(v, HashLength) : v \in Values}
        \cup {BigEndian(1, HashLength) \o BigEndian(0, HashLength)}

\* block number and transaction hash of the logs decoded
LogPlaces ==
    {[BlockNumber |-> 100, TxHash |-> DirtyWord],
     [BlockNumber |-> 101, TxHash |-> PadAddress(AddressOf(171, 205))]}

RawLogs ==
    {[Topics |-> t, Data |-> d, BlockNumber |-> p.BlockNumber, TxHash |-> p.TxHash] :
        t \in TopicLists, d \in DataFields, p \in LogPlaces}

\* a log arrives at a decoder
InitDecode ==
    /\ rawLog \in RawLogs
    /\ descriptor \in Descriptors
    /\ out = NoOutput
    /\ IdlePool
    /\ IdleStore
    /\ IdleDriver
    /\ IdleService
    /\ IdleFetch

\* 06-subscribe-logs: parseLogEvent(&vLog, parsedABI)
ParseLogEvent ==
    /\ out.by = ""
    /\ out' = Parsed(rawLog, descriptor)
    /\ UNCHANGED <<rawLog, descriptor, nonDecodeVars>>

\* the event service: the body of `case vLog := <-logsCh`
DecodeTransfer ==
    /\ out.by = ""
    /\ out' = TransferOf(rawLog)
    /\ UNCHANGED <<rawLog, descriptor, nonDecodeVars>>

\* 08-contract-interact: the body of the loop over receipt.Logs
HandleParseEvent ==
    /\ out.by = ""
    /\ out' = CompleteParsed(rawLog)
    /\ UNCHANGED <<rawLog, descriptor, nonDecodeVars>>

NextDecode ==
    \/ ParseLogEvent
    \/ DecodeTransfer
    \/ HandleParseEvent

SpecDecode == InitDecode /\ [][NextDecode]_vars

\* ---------------------------------------------------- log decoder claims

\* the events declared in the ABI of the event service: Transfer alone
ServiceEvents == {TransferEventSig}

\* C22: a decoder yields an event, and the service stores one, only for a log
\* whose topics[0] is the signature hash of an event its descriptor declares.
DecodesOnlyDeclared ==
    /\ (out.by = "parseLogEvent" /\ out.event # "") =>
            /\ Len(rawLog.Topics) > 0
            /\ \E e \in descriptor : e.name = out.event /\ Keccak256Hash(e.Sig) = rawLog.Topics[1]
    /\ (out.by = "handleParseEvent" /\ out.matched) =>
            /\ Len(rawLog.Topics) > 0
            /\ \E e \in ServiceEvents : Keccak256Hash(e.Sig) = rawLog.Topics[1]
    /\ (out.by = "subscribeTransferEvents" /\ out.stored) =>
            /\ Len(rawLog.Topics) > 0
            /\ \E e \in ServiceEvents : Keccak256Hash(e.Sig) = rawLog.Topics[1]

\* parseLogEvent and handleParseEvent, which compare topics[0], yield an event
\* only for a declared signature hash
ComparingDecodersOnlyDeclared ==
    /\ (out.by = "parseLogEvent" /\ out.event # "") =>
            /\ Len(rawLog.Topics) > 0
            /\ \E e \in descriptor : e.name = out.event /\ Keccak256Hash(e.Sig) = rawLog.Topics[1]
    /\ (out.by = "handleParseEvent" /\ out.matched) =>
            /\ Len(rawLog.Topics) > 0
            /\ \E e \in ServiceEvents : Keccak256Hash(e.Sig) = rawLog.Topics[1]

\* the bytes a run of hexadecimal digits stands for
FromHex(h) == [i \in 1..(Len(h) \div 2) |-> h[2 * i - 1] * 16 + h[2 * i]]

\* the number a run of decimal digits stands for
RECURSIVE FromDecimal(_)
FromDecimal(d) ==
    IF d = <<>> THEN 0 ELSE FromDecimal(SubSeq(d, 1, Len(d) - 1)) * 10 + d[Len(d)]

\* the log's topics[0] is the Transfer signature hash
IsTransferLog == Len(rawLog.Topics) > 0 /\ rawLog.Topics[1] = Keccak256Hash(TransferEventSig.Sig)

\* C23: a log with topics[0] alone, matching a declared event, decodes, and the
\* result has no value for an indexed parameter: none printed by
\* parseLogEvent, none in the event the service stores.
OnlySignatureTopicOmitsIndexed ==
    Len(rawLog.Topics) = 1 =>
        /\ (out.by = "parseLogEvent" /\ out.event # "") => out.indexed = <<>>
        /\ (out.by = "handleParseEvent" /\ out.matched) => out.from = <<>> /\ out.to = <<>>
        /\ (out.by = "subscribeTransferEvents" /\ IsTransferLog /\ out.stored) =>
                out.event.From = <<>> /\ out.event.To = <<>>

\* parseLogEvent and handleParseEvent print no indexed parameter for a log
\* with topics[0] alone
PrintersOmitIndexed ==
    Len(rawLog.Topics) = 1 =>
        /\ (out.by = "parseLogEvent" /\ out.event # "") => out.indexed = <<>>
        /\ (out.by = "handleParseEvent" /\ out.matched) => out.from = <<>> /\ out.to = <<>>

\* the indexed parameters before position i of the inputs
IndexedBefore(inputs, i) == {j \in 1..(i - 1) : inputs[j].Indexed}

\* parseLogEvent prints the indexed input at position i of event e exactly when
\* topics[1 + its rank among the indexed inputs] exists, and prints that topic
CursorOverIndexed(e) ==
    \A i \in 1..Len(e.Inputs) :
        e.Inputs[i].Indexed =>
            LET slot == 1 + Cardinality(IndexedBefore(e.Inputs, i))
                shown == {k \in 1..Len(out.indexed) : out.indexed[k].pos = i}
            IN IF slot < Len(rawLog.Topics)
               THEN \E k \in shown :
                        FromHex(out.indexed[k].value.text)
                            = SubSeq(rawLog.Topics[slot + 1], HashLength - AddressLength + 1, HashLength)
               ELSE shown = {}

\* C24: for a matched event the i-th indexed parameter is decoded from
\* topics[1 + i] whenever that topic exists, whatever is declared before it,
\* and omitted only otherwise: by parseLogEvent for every declared event, by
\* the service for from (topics[1]) and to (topics[2]) of Transfer.
IndexedFromOwnTopic ==
    /\ (out.by = "parseLogEvent" /\ out.event # "") =>
            \A e \in descriptor : e.name = out.event => CursorOverIndexed(e)
    /\ (out.by = "subscribeTransferEvents" /\ IsTransferLog /\ out.stored) =>
            /\ Len(rawLog.Topics) >= 2 =>
                    FromHex(out.event.From)
                        = SubSeq(rawLog.Topics[2], HashLength - AddressLength + 1, HashLength)
            /\ Len(rawLog.Topics) >= 3 =>
                    FromHex(out.event.To)
                        = SubSeq(rawLog.Topics[3], HashLength - AddressLength + 1, HashLength)

\* parseLogEvent keeps a cursor over the indexed parameters alone
ParseLogEventCursor ==
    (out.by = "parseLogEvent" /\ out.event # "") =>
        \A e \in descriptor : e.name = out.event => CursorOverIndexed(e)

\* the log is the encoding of Transfer(f, t, v): the signature hash and the two
\* padded addresses as topics, one big-endian word as data
EncodesTransfer(f, t, v) ==
    /\ rawLog.Topics = <<Keccak256Hash(TransferEventSig.Sig), PadAddress(f), PadAddress(t)>>
    /\ rawLog.Data = BigEndian(v, HashLength)

\* C26: every decoder returns from a log that encodes Transfer(f, t, v)
\* exactly f, t and v, and the event the service stores carries the block
\* number and the transaction hash of the log.
TransferRoundTrip ==
    \A f \in Addresses, t \in Addresses, v \in Values :
        EncodesTransfer(f, t, v) =>
            /\ out.by = "subscribeTransferEvents" =>
                    /\ out.stored
                    /\ FromHex(out.event.From) = f
                    /\ FromHex(out.event.To) = t
                    /\ FromDecimal(out.event.Value) = v
                    /\ out.event.BlockNumber = rawLog.BlockNumber
                    /\ FromHex(out.event.TxHash) = rawLog.TxHash
            /\ out.by = "handleParseEvent" =>
                    /\ out.complete
                    /\ FromHex(out.from) = f
                    /\ FromHex(out.to) = t
                    /\ FromDecimal(out.value) = v
            /\ out.by = "parseLogEvent" =>
                    /\ out.event = "Transfer"
                    /\ Len(out.indexed) = 2
                    /\ out.indexed[1].name = "from" /\ FromHex(out.indexed[1].value.text) = f
                    /\ out.indexed[2].name = "to" /\ FromHex(out.indexed[2].value.text) = t
                    /\ Len(out.nonIndexed) = 1
                    /\ out.nonIndexed[1].name = "value"
                    /\ FromDecimal(out.nonIndexed[1].value.text) = v
                    /\ ~out.dataErr

\* C26 witness: the service decoded the encoding of a Transfer between two
\* different addresses, of a value of more than two bytes
TransferDecoded ==
    /\ EncodesTransfer(AddressOf(171, 205), AddressOf(0, 0), 65539)
    /\ out.by = "subscribeTransferEvents"
    /\ out.stored
    /\ out.event.Value = <<6, 5, 5, 3, 9>>

\* -------------------------------------------- event service claims, logs

\* C25: a received log whose data fails to decode is skipped: the store is
\* unchanged and the subscription stays in Streaming; the next log that
\* decodes is stored as usual.
UndecodableLogSkipped ==
    [][/\ (lastLog' # lastLog /\ lastLog'.topics > 0 /\ ~lastLog'.dataOk) =>
            /\ events' = events
            /\ added' = added
            /\ limit' = limit
            /\ subPc = "streaming" /\ subPc' = "streaming"
            /\ sPc' = sPc
       /\ (lastLog.topics > 0 /\ ~lastLog.dataOk /\ lastLog' # lastLog
                /\ lastLog'.topics > 0 /\ lastLog'.dataOk) =>
            /\ Len(added') = Len(added) + 1
            /\ added'[Len(added')].body = lastLog'.body
            /\ events'[Len(events')] = added'[Len(added')]
            /\ subPc' = "streaming"]_vars

\* C25 witness: after events were stored a log that does not decode was
\* skipped, and the subscription is still streaming
SkippedWhileStreaming ==
    /\ lastLog.topics > 0
    /\ ~lastLog.dataOk
    /\ Len(added) >= 2
    /\ events = added
    /\ subPc = "streaming"

\* --------------------------------------- pool claims, scenarios and locks

\* a pool built from [A, B] whose dial of A failed and whose dial of B succeeded
BuiltFromFailedAThenB ==
    /\ pc = "ready"
    /\ Len(nodes) = 2
    /\ nodes[1].URL = "A" /\ nodes[1].Client = NilClient
    /\ nodes[2].URL = "B" /\ nodes[2].Client # NilClient

\* the entry of a step that runs pickReadNode, direct or as the first statement of a read
IsReadSelection(entry) ==
    \/ entry.op = "pickReadNode"
    \/ entry.op \in Reads /\ entry.step = "pick"
    \/ entry.op \in Reads /\ entry.step = "return" /\ entry.err = "no alive node for read"

\* C27: in a pool built from [A, B] where A failed to dial and B dialed, every
\* pickReadNode returns B and pickPrimaryNode returns B with primaryIdx moved
\* from A's slot to B's; once B is marked dead both return nil on every call,
\* and the read and the write report that no node is alive.
FailedThenDialedPool ==
    [][BuiltFromFailedAThenB =>
         /\ (primaryRet = NilNode /\ nodes[2].Alive) => primaryIdx = 0
         /\ IsReadSelection(last') =>
                IF nodes[2].Alive
                THEN last'.node = 1 /\ last'.err = ""
                ELSE /\ last'.node = NilNode
                     /\ last'.op \in Reads => last'.err = "no alive node for read"
         /\ IsPrimaryCall(last') =>
                IF nodes[2].Alive
                THEN last'.node = 1 /\ primaryIdx' = 1 /\ last'.err = ""
                ELSE /\ last'.node = NilNode
                     /\ primaryIdx' = primaryIdx
                     /\ last'.op = "SendDummyWrite" => last'.err = "no alive node for write"]_vars

\* C27 witness: in that pool the primary moved to B's slot, B was then marked
\* dead, and a primary selection made afterwards returned nil
FailedThenDialedAllDead ==
    /\ BuiltFromFailedAThenB
    /\ ~nodes[2].Alive
    /\ primaryIdx = 1
    /\ IsPrimaryCall(last)
    /\ last.node = NilNode

\* ------------------------------------------------- pool model, lock level

\* the exported operations, which goroutines run on the pool
PoolOps == Reads \cup {"SendDummyWrite"}

\* the endpoint lists of the pools that goroutines share: distinct endpoints,
\* and an endpoint listed twice
SharedUrls == {<<"A", "B">>, <<"A", "B", "C">>, <<"A", "B", "A">>}

\* the number of selections order keeps
OrderWindow == MaxUrls + 1

\* p.mu.Lock() that returns at once whoever holds the lock
CanLockPoolAlways(m) == TRUE

\* p.mu.Lock() returns only when no goroutine holds the lock
CanLockPool(m) == m = ""

\* a return without the deferred p.mu.Unlock()
UnlockPoolNever(m) == m

\* the deferred p.mu.Unlock()
UnlockPool(m) == ""

\* the goroutine is inside pickReadNode, from the call to the return
InReadSelection(t) == t.at \in {"lock", "scan", "found"} /\ t.op # "SendDummyWrite"

InitPoolLock ==
    /\ pc = "new"
    /\ urls \in SharedUrls
    /\ dialOk \in [1..Len(urls) -> BOOLEAN]
    /\ nodes = <<>>
    /\ primaryIdx = 0
    /\ readIdx = 0
    /\ newErr = ""
    /\ callers = [c \in MainCallers |-> IdleCaller]
    /\ last = NoOp
    /\ recent = <<>>
    /\ primaryRet = NilNode
    /\ IdlePoolRun
    /\ IdleStore
    /\ IdleDriver
    /\ IdleService
    /\ IdleDecode
    /\ IdleFetch

\* a goroutine calls GetLatestBlockNumber, GetBalance or SendDummyWrite; each
\* starts with a call of pickReadNode / pickPrimaryNode, which waits in p.mu.Lock()
PoolCall(c, op) ==
    /\ pc = "ready"
    /\ thr[c].at = "idle"
    /\ thr' = [thr EXCEPT ![c] = [IdleThread EXCEPT !.at = "lock", !.op = op]]
    /\ ret' = NoReturn
    /\ UNCHANGED <<poolMu, order, mPc, reads, open, poolVars, nonPoolRunVars>>

\* p.mu.Lock() of pickReadNode, pickPrimaryNode and markNodeDead returns
PoolLock(c) ==
    /\ thr[c].at \in {"lock", "marklock"}
    /\ CanLockPool(poolMu)
    /\ poolMu' = c
    /\ thr' = [thr EXCEPT ![c].at = IF thr[c].at = "lock" THEN "scan" ELSE "mark"]
    /\ ret' = NoReturn
    /\ UNCHANGED <<order, mPc, reads, open, poolVars, nonPoolRunVars>>

\* the loop of pickReadNode / pickPrimaryNode up to its match: the reads of
\* p.nodes and of p.readIdx / p.primaryIdx
PoolScan(c) ==
    /\ thr[c].at = "scan"
    /\ thr' = IF thr[c].op = "SendDummyWrite"
              THEN LET r == PrimaryScan(nodes, primaryIdx)
                   IN [thr EXCEPT ![c].at = "found", ![c].node = r.node, ![c].next = r.primaryIdx]
              ELSE LET r == ReadScan(nodes, readIdx)
                   IN [thr EXCEPT ![c].at = "found", ![c].node = r.node, ![c].next = r.readIdx]
    /\ ret' = NoReturn
    /\ UNCHANGED <<poolMu, order, mPc, reads, open, poolVars, nonPoolRunVars>>

\* the assignment to p.readIdx / p.primaryIdx on a match, the return of the
\* selection and its deferred p.mu.Unlock(); a read with a node goes on to its
\* network call, every other operation returns
PoolPicked(c) ==
    /\ thr[c].at = "found"
    /\ LET t == thr[c]
           isRead == t.op # "SendDummyWrite"
           hit == t.node # NilNode
       IN /\ readIdx' = IF isRead /\ hit THEN t.next ELSE readIdx
          /\ primaryIdx' = IF ~isRead /\ hit THEN t.next ELSE primaryIdx
          /\ poolMu' = UnlockPool(poolMu)
          /\ order' = IF isRead
                      THEN LastK(Append(order, [node |-> t.node, before |-> readIdx]), OrderWindow)
                      ELSE order
          /\ ret' = IF isRead
                    THEN [who |-> c, node |-> t.node, overlapped |-> t.seen, stable |-> t.stable]
                    ELSE NoReturn
          /\ thr' = [d \in Callers |->
                        IF d = c
                        THEN IF t.op \in Reads /\ hit
                             THEN [t EXCEPT !.at = "picked", !.seen = {}, !.stable = TRUE]
                             ELSE IdleThread
                        ELSE IF isRead /\ InReadSelection(thr[d])
                             THEN [thr[d] EXCEPT !.seen = @ \cup {t.node}]
                             ELSE thr[d]]
    /\ UNCHANGED <<mPc, reads, open, nonPoolRunVars>>
    /\ UNCHANGED <<pc, urls, dialOk, nodes, newErr, callers, last, recent, primaryRet>>

\* the read calls node.Client.BlockNumber(ctx) / BalanceAt(ctx, addr, nil) on
\* the node pickReadNode returned to it
PoolNetStart(c) ==
    /\ thr[c].at = "picked"
    /\ thr' = [thr EXCEPT ![c].at = "net"]
    /\ ret' = NoReturn
    /\ UNCHANGED <<poolMu, order, mPc, reads, open, poolVars, nonPoolRunVars>>

\* node.Client.BlockNumber(ctx) / BalanceAt(ctx, addr, nil) returns: a nil err
\* returns the value, any other err calls p.markNodeDead(node.URL, err)
PoolNetReturn(c, outcome) ==
    /\ thr[c].at = "net"
    /\ thr' = [thr EXCEPT ![c] = IF ReportsToPool(outcome)
                                 THEN [@ EXCEPT !.at = "marklock"]
                                 ELSE IdleThread]
    /\ ret' = NoReturn
    /\ UNCHANGED <<poolMu, order, mPc, reads, open, poolVars, nonPoolRunVars>>

\* the loop of markNodeDead, its return and its deferred p.mu.Unlock(); the
\* read that called it then returns its err
PoolMark(c) ==
    /\ thr[c].at = "mark"
    /\ nodes' = MarkDead(nodes, NodeAt(nodes, thr[c].node).URL)
    /\ poolMu' = UnlockPool(poolMu)
    /\ LET changed == Alive(nodes') # Alive(nodes)
       IN /\ order' = IF changed THEN <<>> ELSE order
          /\ thr' = [d \in Callers |->
                        IF d = c THEN IdleThread
                        ELSE IF changed /\ InReadSelection(thr[d])
                             THEN [thr[d] EXCEPT !.seen = {}, !.stable = FALSE]
                             ELSE thr[d]]
    /\ ret' = NoReturn
    /\ UNCHANGED <<mPc, reads, open, nonPoolRunVars>>
    /\ UNCHANGED <<pc, urls, dialOk, primaryIdx, readIdx, newErr, callers, last, recent, primaryRet>>

NextPoolLock ==
    \/ NewEthClientPool
    \/ \E c \in Callers, op \in PoolOps : PoolCall(c, op)
    \/ \E c \in Callers : PoolLock(c)
    \/ \E c \in Callers : PoolScan(c)
    \/ \E c \in Callers : PoolPicked(c)
    \/ \E c \in Callers : PoolNetStart(c)
    \/ \E c \in Callers, outcome \in CallOutcomes : PoolNetReturn(c, outcome)
    \/ \E c \in Callers : PoolMark(c)

SpecPoolLock == InitPoolLock /\ [][NextPoolLock]_vars

\* ------------------------------------------------ pool claims, lock level

\* the nodes k calls of pickReadNode in a row return to one caller, from cursor rIdx on
RECURSIVE SingleCaller(_, _, _)
SingleCaller(ns, rIdx, k) ==
    IF k = 0 THEN <<>>
    ELSE LET r == ReadScan(ns, rIdx)
         IN <<r.node>> \o SingleCaller(ns, r.readIdx, k - 1)

\* the goroutines inside a section that p.mu guards
InCriticalSection == {c \in Callers : thr[c].at \in {"scan", "found", "mark"}}

\* with liveness fixed, the selections of concurrent callers take effect one
\* at a time and return, in that order, what a single caller would get
LockOrderIsRoundRobin ==
    /\ Cardinality(InCriticalSection) <= 1
    /\ order # <<>> =>
           [i \in 1..Len(order) |-> order[i].node]
               = SingleCaller(nodes, order[1].before, Len(order))

\* C28 as stated: with liveness fixed, concurrent pickReadNode calls take
\* effect one at a time in lock order and return the round-robin sequence of
\* a single caller; with two or more live nodes no two calls that overlap in
\* time return the same node.
ConcurrentCallsDistinct ==
    pc = "ready" =>
        /\ LockOrderIsRoundRobin
        /\ (ret.who # "" /\ ret.stable /\ Cardinality(Alive(nodes)) >= 2) =>
               ret.node \notin ret.overlapped

\* C28, amended: with liveness fixed, concurrent pickReadNode calls take
\* effect one at a time in lock order and return the round-robin sequence of
\* a single caller; with two or more live nodes no two calls that take effect
\* one right after the other return the same node.
ConsecutiveSelectionsDistinct ==
    pc = "ready" =>
        /\ LockOrderIsRoundRobin
        /\ Cardinality(Alive(nodes)) >= 2 =>
               \A i \in 1..(Len(order) - 1) : order[i].node # order[i + 1].node

\* C28 witness: a pool with a dead node and two live ones, where a selection
\* has just returned that overlapped a selection of the other goroutine, after
\* more selections than the pool has live nodes
SelectionsOverlapped ==
    /\ pc = "ready"
    /\ Cardinality(Alive(nodes)) = 2
    /\ Len(nodes) = 3
    /\ Len(order) >= 3
    /\ ret.who # ""
    /\ ret.stable
    /\ ret.overlapped # {}

\* C30: no goroutine holds p.mu while its network call is in flight: the lock
\* is held only inside pickReadNode / pickPrimaryNode and markNodeDead, it is
\* free when the network call of a read starts, and NewEthClientPool dials
\* before the pool and its lock are in use.
NoNetworkUnderLock ==
    /\ pc = "new" => poolMu = ""
    /\ \A c \in Callers :
           /\ thr[c].at = "net" => poolMu # c
           /\ poolMu = c => thr[c].at \in {"scan", "found", "mark"}
           /\ thr[c].at \in {"idle", "lock", "picked", "marklock"} => poolMu # c

\* C30 witness: one goroutine is in the network call of GetBalance while the
\* other holds the lock inside markNodeDead after its block-number query failed
NetworkCallBesideLock ==
    \E c, d \in Callers :
       /\ thr[c].at = "net" /\ thr[c].op = "GetBalance"
       /\ thr[d].at = "mark" /\ thr[d].op = "GetLatestBlockNumber"
       /\ poolMu = d

\* --------------------------------------------- pool model, program level

\* the iterations of the read loop of main
MainReads == 3

\* the connections a pool holds: the clients of the successful dials
Dialed(ns) == {ns[i].Client : i \in DOMAIN ns} \ {NilClient}

\* main after its test of ETH_RPC_URLS: strings.Split returns at least one entry
InitPoolMain ==
    /\ pc = "new"
    /\ urls \in BoundedSeqs(RawUrls, MaxUrls) \ {<<>>}
    /\ dialOk \in [1..Len(urls) -> BOOLEAN]
    /\ nodes = <<>>
    /\ primaryIdx = 0
    /\ readIdx = 0
    /\ newErr = ""
    /\ callers = [c \in MainCallers |-> IdleCaller]
    /\ last = NoOp
    /\ recent = <<>>
    /\ primaryRet = NilNode
    /\ IdlePoolRun
    /\ IdleStore
    /\ IdleDriver
    /\ IdleService
    /\ IdleDecode
    /\ IdleFetch

\* pool, err := NewEthClientPool(ctx, urls); a non-nil err ends the process in log.Fatalf
MainNewPool ==
    /\ mPc = "init"
    /\ LET ns == BuildNodes(urls, dialOk, Len(urls))
           err == NewPoolError(urls, ns)
       IN /\ newErr' = err
          /\ pc' = IF err = "" THEN "ready" ELSE "failed"
          /\ mPc' = IF err = "" THEN "read" ELSE "fatal"
          /\ nodes' = IF err = "" THEN ns ELSE <<>>
          /\ open' = Dialed(ns)
    /\ primaryIdx' = 0
    /\ readIdx' = 0
    /\ urls' = <<>>
    /\ dialOk' = <<>>
    /\ UNCHANGED <<callers, last, recent, primaryRet, poolMu, thr, order, ret, reads, nonPoolRunVars>>

\* a whole read as main runs it: pickReadNode, the network call, and
\* markNodeDead when the call returns an err
MainReadCall(outcome) ==
    LET r == ReadScan(nodes, readIdx)
    IN /\ readIdx' = r.readIdx
       /\ nodes' = IF r.node # NilNode /\ ReportsToPool(outcome)
                   THEN MarkDead(nodes, NodeAt(nodes, r.node).URL)
                   ELSE nodes

\* one iteration of the loop over pool.GetLatestBlockNumber(ctx)
MainRead(outcome) ==
    /\ mPc = "read"
    /\ MainReadCall(outcome)
    /\ reads' = reads + 1
    /\ mPc' = IF reads + 1 = MainReads THEN "balance" ELSE "read"
    /\ UNCHANGED <<pc, urls, dialOk, primaryIdx, newErr, callers, last, recent, primaryRet>>
    /\ UNCHANGED <<poolMu, thr, order, ret, open, nonPoolRunVars>>

\* pool.GetBalance(ctx, addr)
MainBalance(outcome) ==
    /\ mPc = "balance"
    /\ MainReadCall(outcome)
    /\ mPc' = "write"
    /\ UNCHANGED <<pc, urls, dialOk, primaryIdx, newErr, callers, last, recent, primaryRet>>
    /\ UNCHANGED <<poolMu, thr, order, ret, reads, open, nonPoolRunVars>>

\* pool.SendDummyWrite(ctx), then main returns: the deferred cancel() runs,
\* which closes no connection, and the process ends
MainWrite ==
    /\ mPc = "write"
    /\ primaryIdx' = PrimaryScan(nodes, primaryIdx).primaryIdx
    /\ mPc' = "exited"
    /\ UNCHANGED <<pc, urls, dialOk, nodes, readIdx, newErr, callers, last, recent, primaryRet>>
    /\ UNCHANGED <<poolMu, thr, order, ret, reads, open, nonPoolRunVars>>

NextPoolMain ==
    \/ MainNewPool
    \/ \E outcome \in CallOutcomes : MainRead(outcome)
    \/ \E outcome \in CallOutcomes : MainBalance(outcome)
    \/ MainWrite

SpecPoolMain == InitPoolMain /\ [][NextPoolMain]_vars

\* --------------------------------------------- pool claims, program level

\* C29: when the program that owns the pool ends, every connection the pool
\* dialed has been closed.
PoolClosedAtExit ==
    mPc \in {"exited", "fatal"} => open = {}

\* ------------------------------------------- pool claims, selection calls

\* the number of records the loop of pickReadNode examines
ReadExamined(ns, rIdx) ==
    LET hits == ReadHits(ns, rIdx)
    IN IF hits = {} THEN Len(ns) ELSE Min(hits) + 1

\* the number of records pickPrimaryNode examines: the current primary, then
\* the loop from index 0 when the primary is not usable
PrimaryExamined(ns, pIdx) ==
    LET n == Len(ns)
        hits == {i \in 0..(n - 1) : Usable(NodeAt(ns, i))}
        first == IF n > 0 /\ pIdx < n THEN 1 ELSE 0
    IN IF first = 1 /\ Usable(NodeAt(ns, pIdx)) THEN 1
       ELSE first + (IF hits = {} THEN n ELSE Min(hits) + 1)

\* C31: pickReadNode and pickPrimaryNode return nil exactly when no node is
\* alive at the call; a node they return is alive and has a connection; each
\* call examines a record at most twice and waits for nothing.
SelectionFindsLiveNode ==
    [][(pc = "ready" /\ (IsReadSelection(last') \/ IsPrimaryCall(last'))) =>
         /\ last'.node = NilNode <=> Alive(nodes) = {}
         /\ last'.node # NilNode =>
                /\ NodeAt(nodes, last'.node).Alive
                /\ NodeAt(nodes, last'.node).Client # NilClient
         /\ ReadExamined(nodes, readIdx) <= Len(nodes)
         /\ PrimaryExamined(nodes, primaryIdx) <= Len(nodes) + 1]_vars

\* C31 witness: a read selection that started behind the only live node
\* returned it, in a pool of three whose other nodes are dead
SelectionWrappedToLiveNode ==
    /\ pc = "ready"
    /\ IsReadSelection(last)
    /\ Len(nodes) = 3
    /\ Alive(nodes) = {0}
    /\ last.node = 0
    /\ Len(recent) >= 2

\* C32: an Alive flag that is false never becomes true again, so the set of
\* live nodes only shrinks; once it is empty every pickReadNode and
\* pickPrimaryNode call returns nil.
DeadStaysDead ==
    [][pc = "ready" =>
         /\ Len(nodes') = Len(nodes)
         /\ \A i \in 1..Len(nodes) : ~nodes[i].Alive => ~nodes'[i].Alive
         /\ Alive(nodes') \subseteq Alive(nodes)
         /\ (Alive(nodes) = {} /\ (IsReadSelection(last') \/ IsPrimaryCall(last')))
                => last'.node = NilNode]_vars

\* C32 witness: two nodes that were dialed have both been marked dead, and a
\* read made afterwards found no node
AllMarkedDeadThenRead ==
    /\ pc = "ready"
    /\ Alive(nodes) = {}
    /\ Cardinality({i \in 1..Len(nodes) : nodes[i].Client # NilClient}) >= 2
    /\ last.op \in Reads
    /\ last.err = "no alive node for read"

\* -------------------------------------- pool claims, concurrent readers

\* C33: under every interleaving of concurrent readers, the node a read
\* starts its network call on is alive at the moment the call starts.
CallStartsOnLiveNode ==
    [][\A c \in Callers :
          (thr[c].at = "picked" /\ thr'[c].at = "net") =>
              NodeAt(nodes, thr[c].node).Alive]_vars

\* ------------------------------------- pool claims, duplicate endpoints

\* the entry of a read that returns the err of its network call
IsFailedRead(entry) ==
    entry.op \in Reads /\ entry.step = "return" /\ entry.err \in {"transport", "application"}

\* C34: after a read on record X fails, X is dead and the next pickReadNode
\* does not return X, for every endpoint list, lists that name an endpoint
\* more than once included.
FailedRecordIsDead ==
    [][(pc = "ready" /\ IsFailedRead(last')) =>
         /\ ~NodeAt(nodes', last'.node).Alive
         /\ ReadScan(nodes', readIdx').node # last'.node]_vars

\* the same with the endpoints of the pool pairwise distinct
FailedRecordIsDeadWhenDistinct ==
    [][(pc = "ready" /\ IsFailedRead(last')
          /\ \A i, j \in 1..Len(nodes) : nodes[i].URL = nodes[j].URL => i = j) =>
         /\ ~NodeAt(nodes', last'.node).Alive
         /\ ReadScan(nodes', readIdx').node # last'.node]_vars

\* ------------------------------------- reconnect driver claims, the dial

\* C35: every call of DialContext is made in a state in which cancellation
\* has not been signalled, whenever the signal arrives.
NoDialAfterCancel ==
    [][(dPc = "checked" /\ dPc' = "dial") => ~cancelled]_vars

\* a dial is started after cancellation only when the signal arrived between
\* the test of ctx.Done() at the top of the loop and the call of DialContext
DialAfterCancelOnlyInWindow ==
    [][(dPc = "checked" /\ dPc' = "dial" /\ cancelled) => cancelAt = "checked"]_vars

\* --------------------------------------------- pool claims, frame effects

\* C36: pickReadNode changes neither primaryIdx nor an alive flag, and leaves
\* readIdx as it is when it finds no live node; pickPrimaryNode changes
\* neither readIdx nor an alive flag; markNodeDead changes neither readIdx
\* nor primaryIdx.
SelectionFrames ==
    [][pc = "ready" =>
         /\ IsReadSelection(last') =>
                /\ primaryIdx' = primaryIdx
                /\ nodes' = nodes
                /\ last'.node = NilNode => readIdx' = readIdx
         /\ IsPrimaryCall(last') =>
                /\ readIdx' = readIdx
                /\ nodes' = nodes
         /\ CallsMarkNodeDead(last') =>
                /\ readIdx' = readIdx
                /\ primaryIdx' = primaryIdx]_vars

\* C36 witness: with both cursors moved off slot 0, a read selection found no
\* live node
MissWithMovedCursors ==
    /\ pc = "ready"
    /\ IsReadSelection(last)
    /\ last.node = NilNode
    /\ readIdx > 0
    /\ primaryIdx > 0

\* --------------------------------------------------- block fetcher model

\* the maxRetries fetchBlockRange hands to fetchBlockWithRetry
RangeRetries == 2

\* a non-nil err of client.BlockByNumber while ctx is live: an error of the
\* node, or the 10 s deadline of reqCtx
FetchErrors == {"rpc", "timeout"}

\* what client.BlockByNumber(reqCtx, blockNumber) can return: reqCtx is derived
\* from ctx, so the call fails once ctx is done
AttemptOutcomes(done) == IF done THEN {"ctx"} ELSE {"ok"} \cup FetchErrors

\* RetryBackoff without the doubling
RetryBackoffFlat(k) == 500

\* time.Duration(1<<i) * 500 * time.Millisecond, in milliseconds (an int64 of
\* nanoseconds in the source: no wrap for i below 35)
RetryBackoff(k) == (2 ^ k) * 500

\* i < maxRetries-1: another attempt follows, so the loop sleeps
SleepsBeforeNext(k, n) == k < n - 1

\* main after flag.Parse and the dial: it calls fetchBlockWithRetry itself, or
\* fetchBlockRange over [start, end]; ctx carries a deadline and may be done
InitFetch ==
    /\ \/ /\ fPc = "direct"
          /\ maxRetries \in 1..MaxRetries
          /\ num = 0
          /\ rangeEnd = 0
       \/ /\ fPc = "ticker"
          /\ maxRetries = 0
          /\ num = 1
          /\ rangeEnd \in 1..MaxBlocks
    /\ rPc = "idle"
    /\ tryIdx = 0
    /\ lastErr = ""
    /\ fCancelled \in BOOLEAN
    /\ tried = <<>>
    /\ slept = <<>>
    /\ fetchRet = NoFetchReturn
    /\ IdlePool
    /\ IdleStore
    /\ IdleDriver
    /\ IdleService
    /\ IdleDecode

\* the deadline of ctx passes, or its cancel function is called
FetchCancel ==
    /\ ~fCancelled
    /\ fPc \notin {"returned", "summary", "stopped"}
    /\ fCancelled' = TRUE
    /\ UNCHANGED <<fPc, rPc, num, rangeEnd, maxRetries, tryIdx, lastErr, tried, slept, fetchRet, nonFetchVars>>

\* fetchBlockWithRetry is entered: var lastErr error, first iteration of the loop
EnterRetry ==
    /\ rPc' = "attempt"
    /\ tryIdx' = 0
    /\ lastErr' = ""
    /\ tried' = <<>>
    /\ slept' = <<>>
    /\ fetchRet' = NoFetchReturn

\* main: fetchBlockWithRetry(ctx, client, num, maxRetries)
DirectCall ==
    /\ fPc = "direct"
    /\ rPc = "idle"
    /\ EnterRetry
    /\ UNCHANGED <<fPc, num, rangeEnd, maxRetries, fCancelled, nonFetchVars>>

\* fetchBlockRange, loop body: <-ticker.C, then fetchBlockWithRetry(ctx, client, blockNumber, 2)
RangeFetch ==
    /\ fPc = "ticker"
    /\ num <= rangeEnd
    /\ fPc' = "fetch"
    /\ maxRetries' = RangeRetries
    /\ EnterRetry
    /\ UNCHANGED <<num, rangeEnd, fCancelled, nonFetchVars>>

\* fetchBlockRange: num > end, the loop ends and the summary is printed
RangeSummary ==
    /\ fPc = "ticker"
    /\ num > rangeEnd
    /\ fPc' = "summary"
    /\ UNCHANGED <<rPc, num, rangeEnd, maxRetries, tryIdx, lastErr, fCancelled, tried, slept, fetchRet, nonFetchVars>>

\* fetchBlockWithRetry returns r to its caller: main goes on; fetchBlockRange
\* counts a failure and continues with the next num, or prints the block and
\* goes to its test of ctx.Done()
ReturnToCaller(r) ==
    /\ rPc' = "idle"
    /\ fetchRet' = r
    /\ IF fPc = "direct"
       THEN fPc' = "returned" /\ num' = num
       ELSE IF r.ok
            THEN fPc' = "check" /\ num' = num
            ELSE fPc' = "ticker" /\ num' = num + 1

\* client.BlockByNumber returns in iteration i: a nil err returns the block;
\* otherwise lastErr = err, then the sleep before the next iteration, or after
\* the last iteration the return of the wrapped lastErr
Attempt(outcome) ==
    /\ rPc = "attempt"
    /\ outcome \in AttemptOutcomes(fCancelled)
    /\ tried' = Append(tried, outcome)
    /\ IF outcome = "ok"
       THEN /\ ReturnToCaller([done |-> TRUE, ok |-> TRUE, wraps |-> "", retries |-> 0])
            /\ UNCHANGED <<lastErr, slept>>
       ELSE /\ lastErr' = outcome
            /\ IF SleepsBeforeNext(tryIdx, maxRetries)
               THEN /\ slept' = Append(slept, RetryBackoff(tryIdx))
                    /\ rPc' = "sleep"
                    /\ UNCHANGED <<fPc, num, fetchRet>>
               ELSE /\ ReturnToCaller([done |-> TRUE, ok |-> FALSE, wraps |-> outcome,
                                       retries |-> maxRetries])
                    /\ UNCHANGED slept
    /\ UNCHANGED <<rangeEnd, maxRetries, tryIdx, fCancelled, nonFetchVars>>

\* time.Sleep(backoff) returns and the loop goes to iteration i + 1
SleepDone ==
    /\ rPc = "sleep"
    /\ tryIdx' = tryIdx + 1
    /\ rPc' = "attempt"
    /\ UNCHANGED <<fPc, num, rangeEnd, maxRetries, lastErr, fCancelled, tried, slept, fetchRet, nonFetchVars>>

\* fetchBlockRange after a printed block: select { case <-ctx.Done(): return; default: }
RangeCheck ==
    /\ fPc = "check"
    /\ IF fCancelled
       THEN fPc' = "stopped" /\ num' = num
       ELSE fPc' = "ticker" /\ num' = num + 1
    /\ UNCHANGED <<rPc, rangeEnd, maxRetries, tryIdx, lastErr, fCancelled, tried, slept, fetchRet, nonFetchVars>>

NextFetch ==
    \/ FetchCancel
    \/ DirectCall
    \/ RangeFetch
    \/ RangeSummary
    \/ \E outcome \in {"ok", "ctx"} \cup FetchErrors : Attempt(outcome)
    \/ SleepDone
    \/ RangeCheck

SpecFetch == InitFetch /\ [][NextFetch]_vars

\* -------------------------------------------------- block fetcher claims

\* C37: once ctx is cancelled fetchBlockRange fetches no further block: it
\* tests ctx.Done() after every block of the range, fetched or failed, and
\* returns when the test finds ctx done.
CancelCheckedAfterEveryBlock ==
    [][/\ (fPc = "fetch" /\ rPc # "idle" /\ rPc' = "idle") => fPc' = "check"
       /\ (fPc = "check" /\ fCancelled) => fPc' = "stopped"]_vars

\* the same for the blocks whose fetch succeeded
CancelCheckedAfterFetchedBlock ==
    [][/\ (fPc = "fetch" /\ rPc # "idle" /\ rPc' = "idle" /\ fetchRet'.ok) => fPc' = "check"
       /\ (fPc = "check" /\ fCancelled) => fPc' = "stopped"]_vars

\* C38: fetchBlockWithRetry with maxRetries >= 1 makes at most maxRetries
\* attempts and none after a success, sleeps 500ms * 2^i between attempt i and
\* attempt i + 1 and not after the last one, returns the block of the first
\* successful attempt, and returns an error, which wraps the error of the
\* last attempt, exactly when every attempt failed.
RetryContract ==
    /\ Len(tried) <= maxRetries
    /\ \A k \in 1..(Len(tried) - 1) : tried[k] # "ok"
    /\ \A k \in 1..Len(slept) : slept[k] = 500 * (2 ^ (k - 1))
    /\ rPc = "attempt" => Len(slept) = Len(tried)
    /\ rPc = "sleep" => Len(slept) = Len(tried) /\ Len(tried) < maxRetries
    /\ fetchRet.done =>
           /\ Len(tried) >= 1
           /\ Len(slept) = Len(tried) - 1
           /\ fetchRet.ok <=> tried[Len(tried)] = "ok"
           /\ ~fetchRet.ok <=> \A k \in 1..Len(tried) : tried[k] # "ok"
           /\ ~fetchRet.ok =>
                  /\ Len(tried) = maxRetries
                  /\ fetchRet.wraps = tried[Len(tried)]
                  /\ fetchRet.retries = maxRetries

\* C38 witness: three attempts failed with different errors, the waits were
\* 500 ms and 1000 ms, and the error returned wraps that of the third attempt
RetriesExhausted ==
    /\ fetchRet.done
    /\ ~fetchRet.ok
    /\ maxRetries = 3
    /\ tried = <<"rpc", "rpc", "timeout">>
    /\ slept = <<500, 1000>>
    /\ fetchRet.wraps = "timeout"
====
